---- MODULE Spec2Model ----
(***************************************************************************)
(* Game loop, session/score manager and player movement of the descent     *)
(* game (src/src/core/input.js: InputManager and Game;                     *)
(* src/src/entities/player.js: Player).                                    *)
(*                                                                         *)
(* Units.  Time is counted in half-seconds (a host frame lasts one of     *)
(* them), lengths in half world units, velocities in world units per       *)
(* second.  With these units velocity * deltaTime is the position change   *)
(* in half-units as an integer and every constant of the program keeps the *)
(* value it has in the source.  timeSinceLastRegen is in milliseconds, as  *)
(* in the source.                                                          *)
(***************************************************************************)
EXTENDS Integers, Sequences, FiniteSets, TLC

VARIABLES
    game,          \* Game fields: isRunning, isPaused, isUserPaused, interactingNPC,
                   \*   initialPlayerPosition, timeSinceLastRegen
    state,         \* Game.state: the session record
    player,        \* the Player object
    inputState,    \* InputManager.inputState
    clock,         \* THREE.Clock: running flag, wall time since oldTime
    collected,     \* level provider: ids of the collectibles already collected
    frames,        \* number of update callbacks scheduled with requestAnimationFrame
    regenPending,  \* regenerateLevel calls suspended at `await loadLevel(0)`
    log,           \* what the latest update() call did (calls it made, branch it took)
    pauseSnap,     \* simulation values at the tick that entered the user pause
    ticks,         \* update() calls made so far
    supabase,      \* SupabaseService: requests in flight (saves counted up to
                   \*   MaxSaves), the failure reported since
                   \*   the latest update() call
    net            \* multiplayer: clientId, otherPlayers, messages sent, chat lines shown,
                   \*   what the latest call wrote to the console, the wall clock

vars == <<game, state, player, inputState, clock, collected, frames, regenPending, log, pauseSnap, ticks, supabase, net>>

----------------------------------------------------------------------------
(* Bounds of the model *)

\* update() calls explored from an initial state
MaxTicks == 6
\* wall time (half-seconds) that may pile up on the clock while it is stopped
MaxWall == 2
\* regenerateLevel continuations in flight at once
MaxRegenPending == 1
\* saveHighScore requests in flight that are counted: further ones are not
\* told apart
MaxSaves == 1
\* chat messages handed to the transport, chat lines displayed
MaxSent == 1
MaxShown == 1
\* the wall clock (milliseconds) up to which the connected game loop is followed
MaxNow == 700
\* session counters the score functions are applied to: the timer in
\* half-seconds (the time score reaches 0 at 4000), artifacts, memories
MaxScoreTimer == 4001
MaxScoreArtifacts == 2
MaxScoreMemories == 2

\* host frame lengths, in half-seconds
DeltaTimes == {1}
\* keys the player presses (a subset of keyMappings)
Keys == {"w", "e", "p"}
\* damage a hazard of the level may deal in one tick
Damages == {0, 50}

----------------------------------------------------------------------------
(* Program constants *)

moveSpeed == 10
jumpForce == 15
gravity == 30
groundProbe == 2
rayFar == 2
mapRegenInterval == 300000
BaseTimeScore == 10000
PenaltyPerSecond == 10
PointsPerArtifact == 1000
PointsPerMemory == 750
WinBonus == 1000
fallThreshold == 20
winThreshold == 5
healAmount == 50
interactRange == 3

\* a length of the source in half-units
HU(n) == 2 * n
\* -moveSpeed * 0.7
backwardFactor == 0 - (moveSpeed * 7) \div 10
\* jumpForce * highJumpForceMultiplier (1.4)
highJumpForce == (jumpForce * 14) \div 10
\* collectionRadius (2.5) in half-units
collectionRadiusHU == 5
\* firstPlatformTopY (145.5) in half-units
firstPlatformTopHU == 291

Max(a, b) == IF a >= b THEN a ELSE b
Min(a, b) == IF a <= b THEN a ELSE b
Abs(a) == IF a >= 0 THEN a ELSE 0 - a

----------------------------------------------------------------------------
(* The level (world/level provider): ground bodies, collectibles, NPCs.    *)
(* Positions are in half-units.                                            *)

NoPosition == [none |-> TRUE]
Vec(x, y, z) == [x |-> x, y |-> y, z |-> z, isVector3 |-> TRUE]

\* levelManager.getPlayerStartPosition()
PlayerStart == Vec(0, 16, 0)
\* levelManager.getEntryPosition('start')
EntryStart == Vec(0, 18, 0)

\* levelManager.groundObjects: boxes whose top face the downward ray can hit
groundObjects ==
    << [zmin |-> -6, zmax |-> 6, top |-> 14, bottom |-> 12],
       [zmin |-> 8, zmax |-> 12, top |-> 0, bottom |-> -2] >>

\* the collectibles of the level
Collectibles ==
    { [id |-> "a1", type |-> "artifact", y |-> 16, z |-> 10],
      [id |-> "m1", type |-> "memory", y |-> 1, z |-> 10],
      [id |-> "h1", type |-> "health", y |-> 4, z |-> 10] }

\* the NPCs of the level
NoNPC == "none"
NPCs ==
    { [name |-> "Elder", isWinConditionNPC |-> FALSE, y |-> 16, z |-> 2],
      [name |-> "Guardian of the Depths", isWinConditionNPC |-> TRUE, y |-> 0, z |-> 10] }

DistSq(p, q) == (p.y - q.y) * (p.y - q.y) + (p.z - q.z) * (p.z - q.z)

\* the proximity query returning collected collectibles as well
getCollectiblesInRadius_All(pos, got) ==
    { c \in Collectibles : DistSq(pos, c) <= collectionRadiusHU * collectionRadiusHU }

\* levelManager.getCollectiblesInRadius(position, radius): the active ones only
getCollectiblesInRadius(pos, got) ==
    { c \in Collectibles :
        c.id \notin got /\ DistSq(pos, c) <= collectionRadiusHU * collectionRadiusHU }

\* levelManager.getClosestNPC(position, 3)
getClosestNPC(pos) ==
    LET near == { n \in NPCs : DistSq(pos, n) <= HU(interactRange) * HU(interactRange) }
    IN IF near = {} THEN NoNPC
       ELSE (CHOOSE n \in near : \A m \in near : DistSq(pos, n) <= DistSq(pos, m)).name

NPCByName(name) == CHOOSE n \in NPCs : n.name = name

----------------------------------------------------------------------------
(* Player (src/src/entities/player.js) *)

NoDialogue == "none"

\* the Player object right after its constructor
NewPlayer(startPosition) ==
    [ x |-> startPosition.x, y |-> startPosition.y, z |-> startPosition.z,
      rot |-> 0,
      vx |-> 0, vy |-> 0, vz |-> 0,
      isGrounded |-> FALSE, isJumping |-> FALSE, isFalling |-> FALSE,
      currentDialogue |-> NoDialogue,
      currentFallDistance |-> 0, maxFallDistanceThisSession |-> 0,
      hasHighJump |-> FALSE,
      currentHealth |-> 100, maxHealth |-> 100 ]

\* Player.setPosition: null falls back to (0, 2, 0); a plain object is converted
\* with `position.y || 2`
setPosition(p, position) ==
    LET pos == IF position = NoPosition THEN Vec(0, HU(2), 0)
               ELSE IF ~position.isVector3
                    THEN Vec(position.x, IF position.y = 0 THEN HU(2) ELSE position.y, position.z)
                    ELSE position
    IN [p EXCEPT !.x = pos.x, !.y = pos.y, !.z = pos.z]

\* the forward basis vector (0, 0, 1) turned by mesh.rotation.y; the model holds
\* the heading the actor is constructed with
ForwardZ(rot) == CASE rot = 0 -> 1

\* groundRay.intersectObjects(ground): distances of the hits within the ray's
\* range [0, 2], the ray starting at mesh.position and pointing down
intersectObjectsIn(p, ground) ==
    { p.y - ground[i].top : i \in
        { j \in 1..Len(ground) :
            /\ ground[j].zmin <= p.z /\ p.z <= ground[j].zmax
            /\ p.y - ground[j].top >= 0
            /\ p.y - ground[j].top <= HU(rayFar) } }

\* groundRay.intersectObjects on the ground objects of the game's level
intersectObjects(p) == intersectObjectsIn(p, groundObjects)

\* checkGrounded with a probe that excludes its own length
checkGroundedIn_Exclusive(p, ground) ==
    LET intersects == intersectObjectsIn(p, ground)
        nearest == CHOOSE d \in intersects : \A e \in intersects : d <= e
    IN [p EXCEPT !.isGrounded =
            IF Len(ground) = 0 THEN FALSE
            ELSE intersects # {} /\ nearest < HU(groundProbe)]

\* checkGrounded that returns before clearing the flag when the ground set is empty
checkGroundedIn_KeepsFlag(p, ground) ==
    LET intersects == intersectObjectsIn(p, ground)
        nearest == CHOOSE d \in intersects : \A e \in intersects : d <= e
    IN [p EXCEPT !.isGrounded =
            IF Len(ground) = 0 THEN @
            ELSE intersects # {} /\ nearest <= HU(groundProbe)]

\* Player.checkGrounded(levelManager) over the ground objects the level provides:
\* the flag is cleared, and set again when the nearest hit is within the probe
checkGroundedIn(p, ground) ==
    LET intersects == intersectObjectsIn(p, ground)
        nearest == CHOOSE d \in intersects : \A e \in intersects : d <= e
    IN [p EXCEPT !.isGrounded =
            IF Len(ground) = 0 THEN FALSE
            ELSE intersects # {} /\ nearest <= HU(groundProbe)]

\* Player.checkGrounded on the game's level
checkGrounded(p) == checkGroundedIn(p, groundObjects)

\* horizontal velocity of updateLandMovement: `forward` is scaled in place by
\* multiplyScalar, so the backward branch scales the vector the forward branch left
horizontalVelocity(in, rot) ==
    LET f0 == ForwardZ(rot)
        f1 == IF in.forward THEN f0 * moveSpeed ELSE f0
        v1 == IF in.forward THEN f1 ELSE 0
        f2 == IF in.backward THEN f1 * backwardFactor ELSE f1
    IN IF in.backward THEN v1 + f2 ELSE v1

\* updateLandMovement: horizontal velocity reset and recomputed from the intents
setHorizontal(p, in) == [p EXCEPT !.vx = 0, !.vz = horizontalVelocity(in, p.rot)]

\* updateLandMovement: left and right turn the actor by turnSpeed * deltaTime
turn(p, dt, in) ==
    [p EXCEPT !.rot = @ + (IF in.left THEN dt ELSE 0) - (IF in.right THEN dt ELSE 0)]

\* a jump branch that does not ask for the ground
jump_Airborne(p, in) ==
    IF in.jump
    THEN [p EXCEPT !.vy = IF p.hasHighJump THEN highJumpForce ELSE jumpForce,
                   !.isJumping = TRUE, !.isGrounded = FALSE]
    ELSE p

\* the jump branch of updateLandMovement
jump(p, in) ==
    IF in.jump /\ p.isGrounded
    THEN [p EXCEPT !.vy = IF p.hasHighJump THEN highJumpForce ELSE jumpForce,
                   !.isJumping = TRUE, !.isGrounded = FALSE]
    ELSE p

\* the fall tracking of the gravity branch
trackFall(p, previousYVelocity, dt) ==
    IF ~p.isFalling /\ p.vy < 0
    THEN [p EXCEPT !.isFalling = TRUE, !.currentFallDistance = 0]
    ELSE IF p.isFalling
         THEN [p EXCEPT !.currentFallDistance = @ + Abs(previousYVelocity * dt)]
         ELSE p

\* the gravity branch of updateLandMovement
applyGravity(p, previousYVelocity, dt) ==
    IF ~p.isGrounded
    THEN [trackFall(p, previousYVelocity, dt) EXCEPT !.vy = @ - (gravity * dt) \div 2]
    ELSE [p EXCEPT !.maxFallDistanceThisSession =
                        IF p.isFalling THEN Max(@, p.currentFallDistance) ELSE @,
                   !.isFalling = FALSE, !.currentFallDistance = 0,
                   !.vy = 0, !.isJumping = FALSE]

\* Player.updateLandMovement(deltaTime, inputState, levelManager)
updateLandMovementIn(p, dt, in, ground) ==
    applyGravity(jump(turn(setHorizontal(checkGroundedIn(p, ground), in), dt, in), in),
                 p.vy, dt)

\* Player.updateLandMovement on the game's level
updateLandMovement(p, dt, in) == updateLandMovementIn(p, dt, in, groundObjects)

\* Player.update: position += velocity * deltaTime
integrate(p, dt) ==
    [p EXCEPT !.x = @ + p.vx * dt, !.y = @ + p.vy * dt, !.z = @ + p.vz * dt]

\* this.hitbox, Box3.setFromObject(this.mesh) carried along with the position: the
\* capsule (radius 0.5, length 1.5, centred at y = 1), the head and the lamp at
\* z = 0.8 span x [-0.5, 0.5], y [-0.25, 2.25], z [-0.5, 0.9] around the position;
\* in half units the faces that fall between two grid lines are taken outward
hitbox(p) ==
    [ min |-> <<p.x - 1, p.y - 1, p.z - 1>>, max |-> <<p.x + 1, p.y + 5, p.z + 2>> ]

\* Box3.intersectsBox: boxes that only touch intersect
intersectsBox(a, b) ==
    \A i \in 1..3 : ~(a.max[i] < b.min[i] \/ a.min[i] > b.max[i])

\* twice the overlap of handleCollisions on axis i: the sum of the half sizes
\* less the distance of the centres
overlap2(a, b, i) ==
    ((a.max[i] - a.min[i]) + (b.max[i] - b.min[i]))
        - Abs((a.min[i] + a.max[i]) - (b.min[i] + b.max[i]))

\* the axis of minimum overlap: x, replaced by y and then by z only when strictly
\* smaller
pushAxis(a, b) ==
    IF overlap2(a, b, 2) < overlap2(a, b, 1)
    THEN (IF overlap2(a, b, 3) < overlap2(a, b, 2) THEN 3 ELSE 2)
    ELSE (IF overlap2(a, b, 3) < overlap2(a, b, 1) THEN 3 ELSE 1)

\* Math.sign of the centre difference on axis i: zero when the centres agree
centreSign(a, b, i) ==
    IF (a.min[i] + a.max[i]) > (b.min[i] + b.max[i]) THEN 1
    ELSE IF (a.min[i] + a.max[i]) < (b.min[i] + b.max[i]) THEN -1 ELSE 0

\* pushAmount = minOverlap * 1.01, to the next half unit above
pushAmount(o2) == (o2 * 101 + 199) \div 200

\* this.mesh.position.addScaledVector(mtv, pushAmount)
addScaledVector(p, i, d) ==
    CASE i = 1 -> [p EXCEPT !.x = @ + d]
      [] i = 2 -> [p EXCEPT !.y = @ + d]
      [] i = 3 -> [p EXCEPT !.z = @ + d]

\* the velocity correction: the component that points into the body is removed
correctVelocity(p, i, sg) ==
    CASE i = 1 -> IF p.vx * sg < 0 THEN [p EXCEPT !.vx = 0] ELSE p
      [] i = 2 -> IF p.vy * sg < 0 THEN [p EXCEPT !.vy = 0] ELSE p
      [] i = 3 -> IF p.vz * sg < 0 THEN [p EXCEPT !.vz = 0] ELSE p

\* a push that grounds the actor without ending its fall
groundByPush_KeepsFalling(p, i, sg) ==
    IF i = 2 /\ sg > 0 /\ ~p.isJumping
    THEN [p EXCEPT !.isGrounded = TRUE]
    ELSE p

\* the ground correction of handleCollisions: pushed up while not jumping, the
\* actor is grounded and no longer falling
groundByPush(p, i, sg) ==
    IF i = 2 /\ sg > 0 /\ ~p.isJumping
    THEN [p EXCEPT !.isGrounded = TRUE, !.isFalling = FALSE]
    ELSE p

\* the push of handleCollisions out of body b along axis i
pushOut(p, a, b, i) ==
    groundByPush(
        correctVelocity(
            addScaledVector(p, i, centreSign(a, b, i) * pushAmount(overlap2(a, b, i))),
            i, centreSign(a, b, i)),
        i, centreSign(a, b, i))

\* the body of the forEach of handleCollisions for one collision object
resolveCollision(p, object) ==
    IF /\ intersectsBox(hitbox(p), object)
       /\ \A i \in 1..3 : overlap2(hitbox(p), object, i) > 0
    THEN pushOut(p, hitbox(p), object, pushAxis(hitbox(p), object))
    ELSE p

RECURSIVE handleCollisionsIn(_, _)
\* Player.handleCollisions(levelManager): the collision objects one after another,
\* each against the position the earlier pushes left
handleCollisionsIn(p, objects) ==
    IF objects = <<>> THEN p
    ELSE handleCollisionsIn(resolveCollision(p, Head(objects)), Tail(objects))

\* Player.handleCollisions on the game's level, which has no collision objects
handleCollisions(p) == handleCollisionsIn(p, <<>>)

\* Player.interact: the dialogue request is reset, then set when an NPC is close
interact(p) ==
    [p EXCEPT !.currentDialogue = getClosestNPC(p)]

\* Player.update after the movement: pickups (checkCollectibles) and interaction
afterMove(p, in, got) ==
    [ player |-> IF in.interact THEN interact(p) ELSE p,
      items |-> getCollectiblesInRadius(p, got) ]

\* Player.update: movement, integration, collisions, pickups, interaction.
\* Gives the new player and the collectibles collected in this frame.
playerUpdate(p, dt, in, got) ==
    afterMove(handleCollisions(integrate(updateLandMovement(p, dt, in), dt)), in, got)

\* Player.update(deltaTime, inputState, levelManager) on a level that provides
\* ground objects and collision objects
playerUpdateIn(p, dt, in, got, levelManager) ==
    afterMove(
        handleCollisionsIn(
            integrate(updateLandMovementIn(p, dt, in, levelManager.groundObjects), dt),
            levelManager.collisionObjects),
        in, got)

\* Player.heal(50): health rises by the amount, capped at maxHealth
heal(p, amount) == [p EXCEPT !.currentHealth = Min(p.maxHealth, @ + amount)]

\* Player.getHealthState
getHealthState(p) == [known |-> TRUE, current |-> p.currentHealth, max |-> p.maxHealth]

\* Player.enableHighJump
enableHighJump(p) == [p EXCEPT !.hasHighJump = TRUE]

\* Player.resetForRespawn: motion and fall tracking cleared
resetForRespawn(p) ==
    [p EXCEPT !.vx = 0, !.vy = 0, !.vz = 0,
              !.isFalling = FALSE, !.isJumping = FALSE, !.currentFallDistance = 0]

\* LevelManager.update(deltaTime, player): a hazard of the level takes health
\* over the time of the frame, none in a frame of length 0
levelManagerUpdate(p, deltaTime, damage) ==
    IF deltaTime > 0 THEN [p EXCEPT !.currentHealth = @ - damage] ELSE p

----------------------------------------------------------------------------
(* InputManager (src/src/core/input.js) *)

Intents == {"forward", "backward", "left", "right", "jump", "down", "action", "interact", "pause"}

\* InputManager.keyMappings
keyMappings(key) ==
    CASE key = "w" -> "forward"
      [] key = "ArrowUp" -> "forward"
      [] key = "s" -> "backward"
      [] key = "ArrowDown" -> "backward"
      [] key = "a" -> "left"
      [] key = "ArrowLeft" -> "left"
      [] key = "d" -> "right"
      [] key = "ArrowRight" -> "right"
      [] key = " " -> "jump"
      [] key = "z" -> "down"
      [] key = "e" -> "interact"
      [] key = "f" -> "action"
      [] key = "p" -> "pause"
      [] OTHER -> "undefined"

\* InputManager.clearInputState
clearInputState == [i \in Intents |-> FALSE]

----------------------------------------------------------------------------
(* THREE.Clock as Game uses it *)

\* Clock.start: oldTime = now
clockStart(c) == [c EXCEPT !.running = TRUE, !.sinceOld = 0]

\* Clock.getDelta: the wall time since oldTime when running, 0 when stopped
clockGetDelta(c) ==
    IF ~c.running /\ c.autoStart
    THEN [clock |-> clockStart(c), delta |-> 0]
    ELSE IF c.running
         THEN [clock |-> [c EXCEPT !.sinceOld = 0], delta |-> c.sinceOld]
         ELSE [clock |-> c, delta |-> 0]

\* Clock.stop: getElapsedTime(), then running = autoStart = false
clockStop(c) == [clockGetDelta(c).clock EXCEPT !.running = FALSE, !.autoStart = FALSE]

----------------------------------------------------------------------------
(* Game (src/src/core/input.js).  The operators below work on a record w   *)
(* holding the whole program state and give the record after the call.     *)

NoScore == -1
NoReason == "none"

World == [ game |-> game, state |-> state, player |-> player, input |-> inputState,
           clock |-> clock, collected |-> collected, log |-> log,
           regenPending |-> regenPending ]

\* Game.state as the constructor and restart() set it
NewState ==
    [ artifacts |-> 0, memories |-> 0, collectedMemories |-> <<>>, depth |-> 0,
      gameTimer |-> 0, playerHealth |-> [known |-> FALSE, current |-> 0, max |-> 0],
      gameOverReason |-> NoReason, gameWon |-> FALSE, finalScore |-> 0,
      scoreFromLastAttempt |-> NoScore ]

\* log of an update() call: the branch it took, the deltaTime it computed, the
\* wall time it found on the clock, the calls it made, the session counters each
\* respawn found before it reset them
NewLog ==
    [ kind |-> "none", deltaTime |-> 0, wall |-> 0, toggled |-> FALSE, respawns |-> <<>>,
      resets |-> <<>>, saves |-> <<>>, scheduled |-> 0, regenStarted |-> 0 ]

\* the formula without Math.max(0, ...) around the time score
scoreFormula_NoFloorAtZero(timer, artifacts, memories, bonus) ==
    ((2 * BaseTimeScore - timer * PenaltyPerSecond)
        + 2 * (artifacts * PointsPerArtifact + memories * PointsPerMemory)
        + 2 * bonus) \div 2

\* Math.floor(TimeScore + CollectibleScore [+ WinBonus]); the timer is in
\* half-seconds, so the sum is formed in halves and floored by the division
scoreFormula(timer, artifacts, memories, bonus) ==
    LET TimeScore2 == Max(0, 2 * BaseTimeScore - timer * PenaltyPerSecond)
        CollectibleScore == artifacts * PointsPerArtifact + memories * PointsPerMemory
    IN (TimeScore2 + 2 * CollectibleScore + 2 * bonus) \div 2

\* calculateScore with the points per collectible of the earlier version
calculateScore_OldPoints(st, isWin) ==
    (Max(0, 2 * BaseTimeScore - st.gameTimer * PenaltyPerSecond)
        + 2 * (st.artifacts * 500 + st.memories * 250)
        + 2 * (IF isWin THEN WinBonus ELSE 0)) \div 2

\* calculateScore without the win bonus
calculateScore_NoBonus(st, isWin) ==
    scoreFormula(st.gameTimer, st.artifacts, st.memories, 0)

\* Game.calculateScore(isWin)
calculateScore(st, isWin) ==
    scoreFormula(st.gameTimer, st.artifacts, st.memories, IF isWin THEN WinBonus ELSE 0)

\* the inline copy in respawnPlayer left with the points of the earlier version
respawnInlineScore_OldPoints(st) ==
    (Max(0, 2 * 10000 - st.gameTimer * 10)
        + 2 * (st.artifacts * 500 + st.memories * 250)) \div 2

\* the inline copy of the formula in respawnPlayer, with its own constants;
\* formed in halves like scoreFormula
respawnInlineScore(st) ==
    (Max(0, 2 * 10000 - st.gameTimer * 10)
        + 2 * (st.artifacts * 1000 + st.memories * 750)) \div 2

\* the inline copy of the formula in gameOver, with its own constants
gameOverInlineScore(st) ==
    (Max(0, 2 * 10000 - st.gameTimer * 10)
        + 2 * (st.artifacts * 1000 + st.memories * 750)) \div 2

\* supabase.saveHighScore(name, score, time, artifacts): the request is logged
saveHighScore(w, score, time, artifacts) ==
    [w EXCEPT !.log.saves = Append(@, [score |-> score, time |-> time, artifacts |-> artifacts])]

\* saveHighScore with this.state.gameTimer and this.state.artifacts
saveCurrent(w, score) == saveHighScore(w, score, w.state.gameTimer, w.state.artifacts)

\* gameOver: the loop is stopped, reason and score are recorded
stopGame(w, reason, score) ==
    [w EXCEPT !.game.isRunning = FALSE,
              !.state.gameOverReason = reason,
              !.state.finalScore = score]

\* Game.gameOver(reason)
gameOver(w, reason) ==
    IF ~w.game.isRunning THEN w
    ELSE [saveCurrent(stopGame(w, reason, gameOverInlineScore(w.state)),
                      gameOverInlineScore(w.state))
            EXCEPT !.input = clearInputState]

\* respawnPlayer saving the score whatever the reason
keepScore_AlwaysSaves(w, reason, finalScoreForDisplay) ==
    saveCurrent([w EXCEPT !.state.scoreFromLastAttempt = finalScoreForDisplay],
                finalScoreForDisplay)

\* respawnPlayer: the score of the attempt is kept and, for fall and health, saved
keepScore(w, reason, finalScoreForDisplay) ==
    IF reason = "fall" \/ reason = "health"
    THEN saveCurrent([w EXCEPT !.state.scoreFromLastAttempt = finalScoreForDisplay],
                     finalScoreForDisplay)
    ELSE [w EXCEPT !.state.scoreFromLastAttempt = finalScoreForDisplay]

\* respawnPlayer without the health reset of its last lines
restoreHealth_Skipped(p) == p

\* respawnPlayer: health back to maxHealth when maxHealth is set
restoreHealth(p) ==
    IF p.maxHealth # 0 THEN [p EXCEPT !.currentHealth = p.maxHealth] ELSE p

\* respawnPlayer forgetting the memories among its resets
respawnReset_KeepsMemories(w, reason) ==
    [w EXCEPT !.player = restoreHealth(setPosition(resetForRespawn(@),
                                                   w.game.initialPlayerPosition)),
              !.state.gameTimer = 0,
              !.state.artifacts = 0,
              !.collected = {},
              !.game.isRunning = TRUE,
              !.game.isPaused = FALSE,
              !.game.isUserPaused = FALSE,
              !.log.respawns = Append(@, reason),
              !.log.resets = Append(@, [timer |-> w.state.gameTimer,
                                        artifacts |-> w.state.artifacts,
                                        memories |-> w.state.memories])]

\* respawnPlayer: the resets, the move to the spawn position, the flags
respawnReset(w, reason) ==
    [w EXCEPT !.player = restoreHealth(setPosition(resetForRespawn(@),
                                                   w.game.initialPlayerPosition)),
              !.state.gameTimer = 0,
              !.state.artifacts = 0,
              !.state.memories = 0,
              !.state.collectedMemories = <<>>,
              !.collected = {},
              !.game.isRunning = TRUE,
              !.game.isPaused = FALSE,
              !.game.isUserPaused = FALSE,
              !.log.respawns = Append(@, reason),
              !.log.resets = Append(@, [timer |-> w.state.gameTimer,
                                        artifacts |-> w.state.artifacts,
                                        memories |-> w.state.memories])]

\* Game.respawnPlayer(reason, scoreToDisplay)
respawnPlayer(w, reason, scoreToDisplay) ==
    IF w.game.initialPlayerPosition = NoPosition
    THEN gameOver(w, "respawn_error")
    ELSE respawnReset(keepScore(w, reason,
                                IF scoreToDisplay # NoScore THEN scoreToDisplay
                                ELSE respawnInlineScore(w.state)),
                      reason)

\* gameWon: the win is recorded with its score
markWon(w, score) ==
    [w EXCEPT !.state.gameWon = TRUE,
              !.state.finalScore = score,
              !.state.scoreFromLastAttempt = NoScore]

\* gameWon showing the win without the respawn that follows it
gameWon_NoRespawn(w) ==
    IF ~w.game.isRunning THEN w
    ELSE saveCurrent(markWon(w, calculateScore(w.state, TRUE)),
                     calculateScore(w.state, TRUE))

\* Game.gameWon
gameWon(w) ==
    IF ~w.game.isRunning THEN w
    ELSE respawnPlayer(saveCurrent(markWon(w, calculateScore(w.state, TRUE)),
                                   calculateScore(w.state, TRUE)),
                       "win", calculateScore(w.state, TRUE))

\* Game.unpauseAndEndDialogue
unpauseAndEndDialogue(w) ==
    [w EXCEPT !.game.isPaused = FALSE, !.game.interactingNPC = NoNPC,
              !.input = clearInputState]

\* togglePause resuming without clock.start()
togglePause_NoRestart(w) ==
    IF ~w.game.isUserPaused
    THEN [w EXCEPT !.game.isUserPaused = TRUE, !.clock = clockStop(@),
                   !.game.pauseScreen = TRUE, !.log.toggled = TRUE]
    ELSE [w EXCEPT !.game.isUserPaused = FALSE, !.game.pauseScreen = FALSE,
                   !.log.toggled = TRUE]

\* Game.togglePause
togglePause(w) ==
    IF ~w.game.isUserPaused
    THEN [w EXCEPT !.game.isUserPaused = TRUE, !.clock = clockStop(@),
                   !.game.pauseScreen = TRUE, !.log.toggled = TRUE]
    ELSE [w EXCEPT !.game.isUserPaused = FALSE, !.clock = clockStart(@),
                   !.game.pauseScreen = FALSE, !.log.toggled = TRUE]

\* Game.checkWinCondition
checkWinCondition(w) ==
    IF w.game.interactingNPC # NoNPC /\ w.game.interactingNPC = "Guardian of the Depths"
    THEN gameWon(w)
    ELSE [w EXCEPT !.input = clearInputState]

\* Game.collectArtifact
collectArtifact(w) ==
    [w EXCEPT !.state.artifacts = @ + 1,
              !.player = IF w.state.artifacts + 1 = 1 THEN enableHighJump(@) ELSE @]

\* collectMemory appending without the look-up in the list
collectMemory_Unchecked(w, id) ==
    [w EXCEPT !.state.memories = @ + 1,
              !.state.collectedMemories = Append(@, id)]

\* Game.collectMemory
collectMemory(w, id) ==
    [w EXCEPT !.state.memories = @ + 1,
              !.state.collectedMemories =
                  IF \E i \in 1..Len(@) : @[i] = id THEN @ ELSE Append(@, id)]

\* one step of the collectedItems.forEach of update()
processItem(w, it) ==
    IF it.type = "artifact" THEN collectArtifact(w)
    ELSE IF it.type = "memory" THEN collectMemory(w, it.id)
    ELSE IF it.type = "health" THEN [w EXCEPT !.player = heal(@, healAmount)]
    ELSE w

RECURSIVE processItems(_, _)
\* the collectedItems.forEach of update(), over the set of collected items
processItems(w, items) ==
    IF items = {} THEN w
    ELSE processItems(processItem(w, CHOOSE it \in items : TRUE),
                      items \ {CHOOSE it \in items : TRUE})

\* Game.regenerateLevel up to its `await loadLevel(0)`
\* a regeneration that leaves the timer where it is
regenerateLevel_KeepsTimer(w) ==
    [w EXCEPT !.regenPending = @ + 1,
              !.log.regenStarted = @ + 1]

regenerateLevel(w) ==
    [w EXCEPT !.game.timeSinceLastRegen = 0,
              !.regenPending = @ + 1,
              !.log.regenStarted = @ + 1]

\* updateGameState: depth, health snapshot and timer
updateDerived(w, deltaTime) ==
    [w EXCEPT !.state.depth = Max(0, firstPlatformTopHU - w.player.y),
              !.state.playerHealth = getHealthState(w.player),
              !.state.gameTimer =
                  IF ~w.game.isUserPaused /\ ~w.game.isPaused THEN @ + deltaTime ELSE @]

\* updateGameState: the fall check
fallCheck(w) ==
    IF w.player.y < 0 - HU(fallThreshold) THEN respawnPlayer(w, "fall", NoScore) ELSE w

\* updateGameState: the win check
winCheck(w) ==
    IF w.player.isGrounded /\ w.player.y < HU(winThreshold) THEN gameWon(w) ELSE w

\* updateGameState with the zero-health check after the fall and win checks
terminalChecks_HealthLast(w) ==
    IF winCheck(fallCheck(w)).player.currentHealth <= 0
    THEN respawnPlayer(winCheck(fallCheck(w)), "health", NoScore)
    ELSE winCheck(fallCheck(w))

\* updateGameState: the terminal checks, zero health first
terminalChecks(w) ==
    IF w.player.currentHealth <= 0
    THEN IF ~w.game.isRunning THEN w ELSE respawnPlayer(w, "health", NoScore)
    ELSE winCheck(fallCheck(w))

\* Game.updateGameState(deltaTime)
updateGameState(w, deltaTime) == terminalChecks(updateDerived(w, deltaTime))

\* the dialogue branch of update(): isPaused with an interacting NPC
dialogueTick(w, in) ==
    IF in.interact /\ w.game.interactingNPC # NoNPC
    THEN IF NPCByName(w.game.interactingNPC).isWinConditionNPC
         THEN IF checkWinCondition(w).game.isRunning
              THEN unpauseAndEndDialogue(checkWinCondition(w))
              ELSE checkWinCondition(w)
         ELSE unpauseAndEndDialogue(w)
    ELSE w

\* update(): player.update, levelManager.update and the collected items
stepActor(w, u, deltaTime, damage) ==
    processItems([w EXCEPT !.player = levelManagerUpdate(u.player, deltaTime, damage),
                           !.collected = @ \cup { c.id : c \in u.items }],
                 u.items)

\* update(): the regeneration timer, after the next tick is scheduled
regenCheck(w, deltaTime) ==
    IF ~w.game.isUserPaused /\ ~w.game.isPaused
    THEN IF w.game.timeSinceLastRegen + deltaTime * 500 >= mapRegenInterval
         THEN regenerateLevel(w)
         ELSE [w EXCEPT !.game.timeSinceLastRegen = @ + deltaTime * 500]
    ELSE w

\* update() without its requestAnimationFrame call
schedule_Never(w) == w

\* update(): requestAnimationFrame(this.update)
schedule(w) == [w EXCEPT !.log.scheduled = @ + 1]

\* the part of update() after the two pause gates
runningTick(w, deltaTime, in, damage) ==
    regenCheck(
        schedule(
            updateGameState(
                stepActor(w, playerUpdateIn(w.player, deltaTime, in, w.collected,
                                            w.game.levelManager),
                          deltaTime, damage),
                deltaTime)),
        deltaTime)

\* update() without the early return of the user pause
gates_NoUserGate(w, in, damage) ==
    IF w.game.isPaused /\ w.game.interactingNPC # NoNPC
    THEN [schedule(dialogueTick(w, in)) EXCEPT !.log.kind = "dialoguePaused"]
    ELSE [runningTick(w, w.log.deltaTime, in, damage) EXCEPT !.log.kind = "running"]

\* update(): the pause gates and what follows them
gates(w, in, damage) ==
    IF w.game.isPaused /\ w.game.interactingNPC # NoNPC
    THEN [schedule(dialogueTick(w, in)) EXCEPT !.log.kind = "dialoguePaused"]
    ELSE IF w.game.isUserPaused
         THEN [schedule(w) EXCEPT !.log.kind = "userPaused"]
         ELSE [runningTick(w, w.log.deltaTime, in, damage) EXCEPT !.log.kind = "running"]

\* update() toggling the pause without clearInputState()
pauseIntent_NotConsumed(w) ==
    IF w.input.pause THEN togglePause(w) ELSE w

\* update(): the pause intent toggles the pause and clears the input state
pauseIntent(w) ==
    IF w.input.pause THEN [togglePause(w) EXCEPT !.input = clearInputState] ELSE w

\* update() taking deltaTime as the wall time since the previous tick, whatever
\* the pause state
readClock_WallDelta(w) ==
    [w EXCEPT !.clock.sinceOld = 0,
              !.log = [NewLog EXCEPT !.deltaTime = w.clock.sinceOld,
                                     !.wall = w.clock.sinceOld]]

\* update(): deltaTime is 0 when user-paused, else clock.getDelta()
readClock(w) ==
    LET d == IF w.game.isUserPaused THEN [clock |-> w.clock, delta |-> 0]
             ELSE clockGetDelta(w.clock)
    IN [w EXCEPT !.clock = d.clock,
                 !.log = [NewLog EXCEPT !.deltaTime = d.delta, !.wall = w.clock.sinceOld]]

\* Game.update: one tick of the loop
update(w, damage) ==
    IF ~w.game.isRunning THEN [w EXCEPT !.log = [NewLog EXCEPT !.kind = "stopped"]]
    ELSE gates(pauseIntent(readClock(w)), w.input, damage)

----------------------------------------------------------------------------
(* High-score service: the completion callbacks of its requests *)

\* no request has failed since the latest update() call
NoFailure == "none"

\* after `new Game()` and init(): the initial getHighScores() is in flight
NewSupabase == [saves |-> 0, fetches |-> 1, failed |-> NoFailure]

\* a failed save ending the game
saveFailed_StopsGame(w) == [w EXCEPT !.game.isRunning = FALSE]

\* .catch(e => console.error("Failed to save high score on respawn:", e)) of
\* respawnPlayer, and the same handler of gameWon
saveFailed(w) == w

\* saveHighScore(...) resolved: no .then handler is attached
saveDone(w) == w

\* .then(scores => this.ui.showInitialHighScores(scores)) of init: the panel is
\* drawn, no field of the game is written
fetchDone(w) == w

\* .catch(e => { console.error(...); this.ui.showInitialHighScores([]) }) of init
fetchFailed(w) == w

----------------------------------------------------------------------------
(* Multiplayer: the roster of remote actors and the chat.  A chat message  *)
(* is a sequence of characters.                                            *)

\* this.clientId = null
NoClient == "none"
\* the name given to `new Game(playerName)`
playerName == "Anon"
\* a missing value (null, undefined)
Nothing == [none |-> TRUE]
\* the longest message sendChatMessage accepts
maxChatLength == 100
\* this.networkUpdateInterval, in milliseconds
networkUpdateInterval == 100
\* no message (null, undefined): told apart from every sequence of characters
NoMessage == <<"null">>

\* ids the server hands out (six characters each)
PlayerIds == {"c0ffee", "ab12cd"}
\* `Player_${id.substring(0, 4)}`
defaultName(id) == CASE id = "c0ffee" -> "Player_c0ff"
                     [] id = "ab12cd" -> "Player_ab12"
\* senderId.substring(0, 6)
shortId(id) == id

\* `playerData.state || {}`: a state without position and name
EmptyState == [position |-> NoPosition, name |-> ""]
\* mesh.position.set(0, -100, 0)
hiddenPosition == Vec(0, HU(0 - 100), 0)

NewNet ==
    [ clientId |-> NoClient,
      otherPlayers |-> [id \in PlayerIds |-> Nothing],
      sent |-> <<>>,
      shown |-> <<>>,
      warning |-> "none",
      removed |-> {},
      lastNetworkUpdate |-> 0,
      now |-> 0 ]

\* the ids of this.otherPlayers
roster(n) == {id \in PlayerIds : n.otherPlayers[id] # Nothing}

\* console.warn
warn(n, text) == [n EXCEPT !.warning = text]

\* the replacement without its second call
escapeChar_KeepsGreater(c) ==
    CASE c = "<" -> <<"&", "l", "t", ";">>
      [] OTHER -> <<c>>

\* message.replace(/</g, "&lt;").replace(/>/g, "&gt;") on one character
escapeChar(c) ==
    CASE c = "<" -> <<"&", "l", "t", ";">>
      [] c = ">" -> <<"&", "g", "t", ";">>
      [] OTHER -> <<c>>

RECURSIVE sanitizedMessage(_)
\* message.replace(/</g, "&lt;").replace(/>/g, "&gt;")
sanitizedMessage(message) ==
    IF message = <<>> THEN <<>>
    ELSE escapeChar(Head(message)) \o sanitizedMessage(Tail(message))

\* network.send(type, payload)
networkSend(n, type, payload) ==
    [n EXCEPT !.sent = Append(@, [type |-> type, payload |-> payload, at |-> n.now])]

\* ui.showChatMessage(name, text)
showChatMessage(n, name, text) == [n EXCEPT !.shown = Append(@, [name |-> name, text |-> text])]

\* sendChatMessage without the limit on the length
sendChatMessage_NoLimit(n, name, message) ==
    IF n.clientId = NoClient THEN warn(n, "networkNotReady")
    ELSE IF message = NoMessage \/ Len(message) = 0
    THEN warn(n, "emptyOrTooLong")
    ELSE showChatMessage(
            networkSend(n, "chatMessage", [text |-> sanitizedMessage(message)]),
            name, sanitizedMessage(message))

\* Game.sendChatMessage(message); this.network is set by init
sendChatMessage(n, name, message) ==
    IF n.clientId = NoClient THEN warn(n, "networkNotReady")
    ELSE IF message = NoMessage \/ Len(message) = 0 \/ Len(message) > 100
    THEN warn(n, "emptyOrTooLong")
    ELSE showChatMessage(
            networkSend(n, "chatMessage", [text |-> sanitizedMessage(message)]),
            name, sanitizedMessage(message))

\* Game.setClientId(id)
setClientId(n, id) == [n EXCEPT !.clientId = id]

\* Game.addOtherPlayer(playerData)
addOtherPlayer(n, playerData) ==
    IF playerData = Nothing \/ n.otherPlayers[playerData.id] # Nothing
    THEN warn(n, "invalidOrExisting")
    ELSE [n EXCEPT !.otherPlayers[playerData.id] =
            [ mesh |-> IF playerData.state # Nothing /\ playerData.state.position # NoPosition
                       THEN playerData.state.position ELSE hiddenPosition,
              state |-> IF playerData.state # Nothing THEN playerData.state ELSE EmptyState,
              name |-> IF playerData.name # "" THEN playerData.name
                       ELSE defaultName(playerData.id) ]]

\* Game.removeOtherPlayer(playerId)
removeOtherPlayer(n, playerId) ==
    [n EXCEPT !.otherPlayers[playerId] = Nothing,
              !.removed = IF n.otherPlayers[playerId] # Nothing THEN @ \cup {playerId} ELSE @]

\* Object.keys(this.otherPlayers).forEach(id => this.removeOtherPlayer(id))
removeAll(n) ==
    [n EXCEPT !.otherPlayers = [id \in PlayerIds |-> Nothing],
              !.removed = @ \cup roster(n)]

RECURSIVE addOthers(_, _)
\* playersData.forEach(playerData => { if (playerData.id !== this.clientId) ... })
addOthers(n, playersData) ==
    IF playersData = <<>> THEN n
    ELSE addOthers(IF Head(playersData).id # n.clientId
                   THEN addOtherPlayer(n, Head(playersData)) ELSE n,
                   Tail(playersData))

\* Game.handleWorldState(playersData)
handleWorldState(n, playersData) == addOthers(removeAll(n), playersData)

\* handlePlayerJoined dropping the players it tracked
handlePlayerJoined_Replaces(n, playerData) ==
    IF playerData.id # n.clientId THEN addOtherPlayer(removeAll(n), playerData) ELSE n

\* Game.handlePlayerJoined(playerData)
handlePlayerJoined(n, playerData) ==
    IF playerData.id # n.clientId THEN addOtherPlayer(n, playerData) ELSE n

\* Game.handlePlayerLeft(playerId)
handlePlayerLeft(n, playerId) == removeOtherPlayer(n, playerId)

\* handlePlayerUpdate for a tracked player and a state
applyUpdate(otherPlayer, playerId, st) ==
    [ mesh |-> IF st.position # NoPosition THEN st.position ELSE otherPlayer.mesh,
      state |-> st,
      name |-> IF st.name # "" THEN st.name ELSE defaultName(playerId) ]

\* handlePlayerUpdate tracking the player of an update it does not know
handlePlayerUpdate_AddsUnknown(n, playerId, st) ==
    IF st = Nothing THEN n
    ELSE [n EXCEPT !.otherPlayers[playerId] =
            applyUpdate([mesh |-> hiddenPosition, state |-> EmptyState, name |-> ""],
                        playerId, st)]

\* Game.handlePlayerUpdate(playerId, state)
handlePlayerUpdate(n, playerId, st) ==
    IF n.otherPlayers[playerId] # Nothing /\ st # Nothing
    THEN [n EXCEPT !.otherPlayers[playerId] = applyUpdate(@, playerId, st)]
    ELSE IF n.otherPlayers[playerId] = Nothing
    THEN warn(n, "unknownPlayer")
    ELSE n

\* Game.handleChatMessage(senderId, messageText)
handleChatMessage(n, senderId, messageText) ==
    IF senderId = n.clientId THEN n
    ELSE showChatMessage(n,
            IF n.otherPlayers[senderId] # Nothing /\ n.otherPlayers[senderId].name # ""
            THEN n.otherPlayers[senderId].name ELSE shortId(senderId),
            messageText)

\* Game.handleDisconnect()
handleDisconnect(n) == removeAll(n)

\* Game.sendPlayerState()
sendPlayerState(n, p) ==
    IF n.clientId = NoClient THEN n
    ELSE networkSend(n, "playerStateUpdate",
            [position |-> <<p.x, p.y, p.z>>, rotation |-> p.rot,
             health |-> p.currentHealth, name |-> playerName])

\* the periodic send that never records when it sent
sendPeriodically_NoStamp(n, p) ==
    IF n.clientId # NoClient /\ n.now - n.lastNetworkUpdate > networkUpdateInterval
    THEN sendPlayerState(n, p)
    ELSE n

\* update(): `if (this.network && this.clientId && now - this.lastNetworkUpdate >
\* this.networkUpdateInterval)`, n.now being performance.now()
sendPeriodically(n, p) ==
    IF n.clientId # NoClient /\ n.now - n.lastNetworkUpdate > networkUpdateInterval
    THEN [sendPlayerState(n, p) EXCEPT !.lastNetworkUpdate = n.now]
    ELSE n

\* regenerateLevel up to its `await loadLevel(0)`: the other players are cleared
regenerateRoster(n, w) == IF w.log.regenStarted > 0 THEN removeAll(n) ELSE n

\* the network part of update(): reached by the ticks that pass both pause gates
networkTick(n, w) ==
    IF w.log.kind = "running" THEN regenerateRoster(sendPeriodically(n, w.player), w) ELSE n

----------------------------------------------------------------------------
(* Initial states *)

NoSnap == [none |-> TRUE]

\* the program after `new Game()` and `await game.init()`
FreshWorld ==
    [ game |-> [ isRunning |-> FALSE, isPaused |-> FALSE, isUserPaused |-> FALSE,
                 interactingNPC |-> NoNPC, initialPlayerPosition |-> PlayerStart,
                 timeSinceLastRegen |-> 0,
                 \* the pause overlay of the interface is shown
                 pauseScreen |-> FALSE,
                 levelManager |-> [ groundObjects |-> groundObjects,
                                    collisionObjects |-> <<>> ] ],
      state |-> NewState,
      player |-> NewPlayer(PlayerStart),
      input |-> clearInputState,
      clock |-> [running |-> FALSE, autoStart |-> TRUE, sinceOld |-> 0],
      collected |-> {},
      log |-> NewLog,
      regenPending |-> 0 ]

\* the program after the actor stood on the first platform for t half-seconds of
\* ticks, a hazard having taken half of its health, one frame after the last tick
IdleWorld(t) ==
    [ FreshWorld EXCEPT
        !.game.isRunning = TRUE,
        !.game.timeSinceLastRegen = t * 500,
        !.state.gameTimer = t,
        !.state.depth = Max(0, firstPlatformTopHU - PlayerStart.y),
        !.state.playerHealth = [known |-> TRUE, current |-> 50, max |-> 100],
        !.player.isGrounded = TRUE,
        !.player.currentHealth = 50,
        !.clock = [running |-> TRUE, autoStart |-> TRUE, sinceOld |-> 1],
        !.log = [NewLog EXCEPT !.kind = "running", !.deltaTime = 1, !.wall = 1,
                               !.scheduled = 1] ]

\* half-seconds of play before the late session starts: one second before the
\* level regeneration is due
LateStart == 597

\* the late session: the tick in which the hazard takes the other half
LateWorld == update(IdleWorld(LateStart), 50)

Install(w) ==
    /\ game = w.game /\ state = w.state /\ player = w.player /\ inputState = w.input
    /\ clock = w.clock /\ collected = w.collected /\ log = w.log
    /\ regenPending = w.regenPending

\* the service in the late session: the initial fetch has long been answered, the
\* save of the respawn in the last tick is in flight
LateSupabase ==
    [NewSupabase EXCEPT !.fetches = 0, !.saves = Min(MaxSaves, Len(LateWorld.log.saves))]

Init ==
    /\ \/ Install(FreshWorld) /\ frames = 0 /\ supabase = NewSupabase
       \/ Install(LateWorld) /\ frames = 1 /\ supabase = LateSupabase
    /\ pauseSnap = NoSnap
    /\ ticks = 0
    /\ net = NewNet

----------------------------------------------------------------------------
(* Actions *)

Apply(w) ==
    /\ game' = w.game /\ state' = w.state /\ player' = w.player /\ inputState' = w.input
    /\ clock' = w.clock /\ collected' = w.collected /\ log' = w.log
    /\ regenPending' = w.regenPending

\* the simulation values a user pause has to preserve
Snapshot(w) ==
    [ gameTimer |-> w.state.gameTimer,
      timeSinceLastRegen |-> w.game.timeSinceLastRegen,
      player |-> w.player,
      regenPending |-> w.regenPending ]

\* window.startGameLoop (the start button): starts the clock and runs the first
\* update() itself
StartGameLoop ==
    /\ ~game.isRunning
    /\ ticks < MaxTicks
    /\ \E damage \in Damages :
         LET w == update([World EXCEPT !.game.isRunning = TRUE, !.clock = clockStart(@)], damage)
         IN /\ Apply(w)
            /\ frames' = frames + w.log.scheduled
            /\ pauseSnap' = IF w.game.isUserPaused THEN Snapshot(World) ELSE NoSnap
            /\ supabase' = [supabase EXCEPT !.saves = Min(MaxSaves, @ + Len(w.log.saves)),
                                            !.failed = NoFailure]
    /\ ticks' = ticks + 1
    /\ UNCHANGED net

\* the host runs one scheduled update callback, `frame` half-seconds after the
\* previous one
Tick ==
    /\ frames > 0
    /\ regenPending <= MaxRegenPending
    /\ \E frame \in DeltaTimes, damage \in Damages :
         /\ clock.sinceOld + frame <= MaxWall
         /\ ticks < MaxTicks
         /\ ticks' = ticks + 1
         /\ LET w == update([World EXCEPT !.clock.sinceOld = @ + frame], damage)
            IN /\ Apply(w)
               /\ frames' = (frames - 1) + w.log.scheduled
               /\ pauseSnap' =
                    IF ~game.isUserPaused /\ w.game.isUserPaused THEN Snapshot(World)
                    ELSE IF game.isUserPaused THEN pauseSnap
                    ELSE NoSnap
               /\ supabase' = [supabase EXCEPT !.saves = Min(MaxSaves, @ + Len(w.log.saves)),
                                               !.failed = NoFailure]
    /\ UNCHANGED net

\* a saveHighScore request of a respawn is answered: it succeeded or it failed
SaveSettled ==
    /\ supabase.saves > 0
    /\ \E ok \in BOOLEAN :
         IF ok
         THEN /\ Apply(saveDone(World))
              /\ supabase' = [supabase EXCEPT !.saves = @ - 1]
         ELSE /\ Apply(saveFailed(World))
              /\ supabase' = [supabase EXCEPT !.saves = @ - 1, !.failed = "save"]
    /\ UNCHANGED <<frames, pauseSnap, ticks, net>>

\* the getHighScores request of init is answered: it succeeded or it failed
FetchSettled ==
    /\ supabase.fetches > 0
    /\ \E ok \in BOOLEAN :
         IF ok
         THEN /\ Apply(fetchDone(World))
              /\ supabase' = [supabase EXCEPT !.fetches = @ - 1]
         ELSE /\ Apply(fetchFailed(World))
              /\ supabase' = [supabase EXCEPT !.fetches = @ - 1, !.failed = "fetch"]
    /\ UNCHANGED <<frames, pauseSnap, ticks, net>>

\* InputManager.handleKeyDown
handleKeyDown(key) ==
    /\ inputState' = [inputState EXCEPT ![keyMappings(key)] = TRUE]
    /\ UNCHANGED <<game, state, player, clock, collected, frames, regenPending, log, pauseSnap, ticks, supabase, net>>

\* InputManager.handleKeyUp
handleKeyUp(key) ==
    /\ inputState' = [inputState EXCEPT ![keyMappings(key)] = FALSE]
    /\ UNCHANGED <<game, state, player, clock, collected, frames, regenPending, log, pauseSnap, ticks, supabase, net>>

\* Game.regenerateLevel after `await loadLevel(0)`: the level is loaded anew,
\* the spawn position is read again and the actor is put there
RegenComplete ==
    /\ regenPending > 0
    /\ regenPending' = regenPending - 1
    /\ collected' = {}
    /\ game' = [game EXCEPT !.initialPlayerPosition = EntryStart]
    /\ player' = [setPosition(player, EntryStart) EXCEPT
                     !.isFalling = FALSE, !.currentFallDistance = 0,
                     !.vx = 0, !.vy = 0, !.vz = 0]
    /\ UNCHANGED <<state, inputState, clock, frames, log, pauseSnap, ticks, supabase, net>>

Next ==
    \/ StartGameLoop
    \/ Tick
    \/ \E key \in Keys : handleKeyDown(key)
    \/ \E key \in Keys : handleKeyUp(key)
    \/ RegenComplete
    \/ SaveSettled
    \/ FetchSettled

Spec == Init /\ [][Next]_vars

----------------------------------------------------------------------------
(* The score functions on the session records of a running game *)

\* a running session with the given counters
ScoreInit ==
    /\ \E t \in 0..MaxScoreTimer, a \in 0..MaxScoreArtifacts, m \in 0..MaxScoreMemories :
         Install([IdleWorld(t) EXCEPT !.state.artifacts = a, !.state.memories = m,
                                     !.log = NewLog])
    /\ frames = 1
    /\ pauseSnap = NoSnap
    /\ ticks = 0
    /\ supabase = [NewSupabase EXCEPT !.fetches = 0]
    /\ net = NewNet

\* this.calculateScore(isWin) on the session record
CalculateScore(isWin) ==
    /\ log' = [kind |-> "calculateScore", isWin |-> isWin,
               result |-> calculateScore(state, isWin)]
    /\ UNCHANGED <<game, state, player, inputState, clock, collected, frames, regenPending, pauseSnap, ticks, supabase, net>>

\* the inline score of respawnPlayer on the session record
RespawnScore ==
    /\ log' = [kind |-> "respawnInline", isWin |-> FALSE,
               result |-> respawnInlineScore(state)]
    /\ UNCHANGED <<game, state, player, inputState, clock, collected, frames, regenPending, pauseSnap, ticks, supabase, net>>

\* the inline score of gameOver on the session record
GameOverScore ==
    /\ log' = [kind |-> "gameOverInline", isWin |-> FALSE,
               result |-> gameOverInlineScore(state)]
    /\ UNCHANGED <<game, state, player, inputState, clock, collected, frames, regenPending, pauseSnap, ticks, supabase, net>>

ScoreNext ==
    \/ \E isWin \in BOOLEAN : CalculateScore(isWin)
    \/ RespawnScore
    \/ GameOverScore

ScoreSpec == ScoreInit /\ [][ScoreNext]_vars

----------------------------------------------------------------------------
(* The multiplayer handlers: messages of the server arrive in any order,   *)
(* the player submits chat messages                                        *)

\* the variables of the game loop
gameVars == <<game, state, player, inputState, clock, collected, frames, regenPending,
              log, pauseSnap, ticks, supabase>>

\* characters of a chat message
Chars == {"a", "<", ">"}

RECURSIVE Repeat(_, _)
\* the message made of n times the character c
Repeat(c, n) == IF n = 0 THEN <<>> ELSE <<c>> \o Repeat(c, n - 1)

\* what the chat input submits: nothing, the empty message, one character,
\* messages as long as the limit, one shorter and one longer
Messages ==
    {NoMessage, <<>>} \cup {<<c>> : c \in Chars}
        \cup {Repeat(c, n) : c \in {"a", "<"}, n \in (maxChatLength - 1)..(maxChatLength + 1)}

\* chat texts the server relays
RelayedTexts == {<<"h", "i">>}

\* states the server broadcasts for a player
RemoteStates ==
    {Nothing, [position |-> EntryStart, name |-> "Ann"], [position |-> NoPosition, name |-> ""]}

\* player records of join notifications
PlayerDatas ==
    {[id |-> id, name |-> name, state |-> st] :
        id \in PlayerIds, name \in {"", "Bob"},
        st \in {Nothing, [position |-> PlayerStart, name |-> ""]}}

\* the listings of a world-state message: up to two players, without name and state
WorldStates ==
    LET listed == {[id |-> id, name |-> "", state |-> Nothing] : id \in PlayerIds}
    IN {<<>>} \cup {<<d>> : d \in listed} \cup {<<d, e>> : d \in listed, e \in listed}

\* a call starts with nothing written to the console
Called == [net EXCEPT !.warning = "none", !.removed = {}]

NetInit ==
    /\ Install(FreshWorld) /\ frames = 0 /\ supabase = NewSupabase
    /\ pauseSnap = NoSnap
    /\ ticks = 0
    /\ net = NewNet

SetClientId(id) ==
    /\ net' = setClientId(Called, id)
    /\ UNCHANGED gameVars

HandleWorldState(playersData) ==
    /\ net' = handleWorldState(Called, playersData)
    /\ UNCHANGED gameVars

HandlePlayerJoined(playerData) ==
    /\ net' = handlePlayerJoined(Called, playerData)
    /\ UNCHANGED gameVars

HandlePlayerLeft(playerId) ==
    /\ net' = handlePlayerLeft(Called, playerId)
    /\ UNCHANGED gameVars

HandlePlayerUpdate(playerId, st) ==
    /\ net' = handlePlayerUpdate(Called, playerId, st)
    /\ UNCHANGED gameVars

HandleChatMessage(senderId, messageText) ==
    /\ Len(net.shown) < MaxShown
    /\ net' = handleChatMessage(Called, senderId, messageText)
    /\ UNCHANGED gameVars

HandleDisconnect ==
    /\ net' = handleDisconnect(Called)
    /\ UNCHANGED gameVars

\* the chat input submits a message
SendChatMessage(message) ==
    /\ Len(net.sent) < MaxSent
    /\ Len(net.shown) < MaxShown
    /\ net' = sendChatMessage(Called, playerName, message)
    /\ UNCHANGED gameVars

NetNext ==
    \/ \E id \in PlayerIds : SetClientId(id)
    \/ \E playersData \in WorldStates : HandleWorldState(playersData)
    \/ \E playerData \in PlayerDatas : HandlePlayerJoined(playerData)
    \/ \E playerId \in PlayerIds : HandlePlayerLeft(playerId)
    \/ \E playerId \in PlayerIds, st \in RemoteStates : HandlePlayerUpdate(playerId, st)
    \/ \E senderId \in PlayerIds, messageText \in RelayedTexts :
          HandleChatMessage(senderId, messageText)
    \/ HandleDisconnect
    \/ \E message \in Messages : SendChatMessage(message)

NetSpec == NetInit /\ [][NetNext]_vars

----------------------------------------------------------------------------
(* The game loop of a connected client: frames of any length, the wall     *)
(* clock performance.now() in milliseconds.  The simulation reads its      *)
(* clock in half-seconds, a shorter frame leaves it where it is.           *)

\* frame lengths in milliseconds
FrameMs == {50, 101, 500}

\* a running game on the first platform, no client id assigned yet
SyncInit ==
    /\ Install(IdleWorld(0)) /\ frames = 1
    /\ supabase = [NewSupabase EXCEPT !.fetches = 0]
    /\ pauseSnap = NoSnap
    /\ ticks = 0
    /\ net = NewNet

\* the host runs one scheduled update callback frameMs after the previous one
SyncTick(frameMs) ==
    /\ frames > 0
    /\ net.now + frameMs <= MaxNow
    /\ clock.sinceOld + frameMs \div 500 <= MaxWall
    /\ ticks' = ticks + 1
    /\ LET w == update([World EXCEPT !.clock.sinceOld = @ + frameMs \div 500], 0)
       IN /\ Apply(w)
          /\ frames' = (frames - 1) + w.log.scheduled
          /\ pauseSnap' =
               IF ~game.isUserPaused /\ w.game.isUserPaused THEN Snapshot(World)
               ELSE IF game.isUserPaused THEN pauseSnap
               ELSE NoSnap
          /\ supabase' = [supabase EXCEPT !.saves = Min(MaxSaves, @ + Len(w.log.saves)),
                                          !.failed = NoFailure]
          /\ net' = networkTick([Called EXCEPT !.now = @ + frameMs], w)

SyncNext ==
    \/ \E frameMs \in FrameMs : SyncTick(frameMs)
    \/ \E id \in PlayerIds : SetClientId(id)
    \/ handleKeyDown("p")
    \/ handleKeyUp("p")

SyncSpec == SyncInit /\ [][SyncNext]_vars

----------------------------------------------------------------------------
(* The roster of a connected client in a game whose level regeneration is  *)
(* due                                                                     *)

\* a running game whose next tick regenerates the level
RosterInit ==
    /\ Install(IdleWorld(LateStart + 2)) /\ frames = 1
    /\ supabase = [NewSupabase EXCEPT !.fetches = 0]
    /\ pauseSnap = NoSnap
    /\ ticks = 0
    /\ net = NewNet

RosterNext ==
    \/ SyncTick(500)
    \/ RegenComplete
    \/ \E id \in PlayerIds : SetClientId(id)
    \/ \E playersData \in WorldStates : HandleWorldState(playersData)
    \/ \E playerData \in PlayerDatas : HandlePlayerJoined(playerData)
    \/ \E playerId \in PlayerIds : HandlePlayerLeft(playerId)
    \/ \E playerId \in PlayerIds, st \in RemoteStates : HandlePlayerUpdate(playerId, st)
    \/ HandleDisconnect

RosterSpec == RosterInit /\ [][RosterNext]_vars

----------------------------------------------------------------------------
(* Properties *)

\* a step that runs update(): StartGameLoop or Tick
IsUpdate == ticks' = ticks + 1

PlayerAt(p, pos) == p.x = pos.x /\ p.y = pos.y /\ p.z = pos.z

\* the values the terminal checks of the latest tick saw: updateGameState stores
\* the health snapshot and the depth just before them
HealthSeen == state.playerHealth.current
BelowWinThreshold == state.depth > firstPlatformTopHU - HU(winThreshold)

\* C1: after every respawn that does not end in game over, whatever its reason,
\* artifacts and memories are 0, collectedMemories is empty, gameTimer is 0 and
\* the actor stands at the recorded initial spawn position.
C1_RespawnResets ==
    (log.respawns # <<>> /\ state.gameOverReason = NoReason) =>
        /\ state.artifacts = 0
        /\ state.memories = 0
        /\ state.collectedMemories = <<>>
        /\ state.gameTimer = 0
        /\ PlayerAt(player, game.initialPlayerPosition)

\* a fall respawn that had an artifact and elapsed time to reset
C1_Witness ==
    /\ log.respawns = <<"fall">>
    /\ Len(log.saves) = 1
    /\ log.saves[1].artifacts > 0
    /\ log.saves[1].time > 0
    /\ state.artifacts = 0

\* C2 (as the code has it): gameTimer increases only in an update() that finds
\* the loop Running, and then by that tick's deltaTime; an update() that finds
\* the loop paused, or enters a pause, never increases it: it leaves gameTimer
\* unchanged, or at 0 when the tick that leaves the pause respawns the actor.
C2_TimerOnlyRunning ==
    [][ /\ state'.gameTimer > state.gameTimer =>
              /\ IsUpdate
              /\ ~game.isUserPaused /\ ~game.isPaused
              /\ log'.kind = "running"
              /\ state'.gameTimer = state.gameTimer + log'.deltaTime
        /\ (IsUpdate /\ (game.isUserPaused \/ game.isPaused \/ log'.kind # "running")) =>
              \/ state'.gameTimer = state.gameTimer
              \/ log'.respawns # <<>> /\ state'.gameTimer = 0 ]_vars

\* a tick that ran while the loop was user-paused, wall time passing, the timer kept
C2_Witness ==
    /\ log.kind = "userPaused"
    /\ ~log.toggled
    /\ log.wall > 0
    /\ state.gameTimer > 0

\* C2 as stated: gameTimer is unchanged across every tick that finds the loop
\* paused, the ticks that enter or leave a pause included.
C2_Original ==
    [][ (IsUpdate /\ (game.isUserPaused \/ game.isPaused
                        \/ game'.isUserPaused \/ game'.isPaused)) =>
            state'.gameTimer = state.gameTimer ]_vars

\* C3 (as the code has it): the tick that resumes a user pause finds deltaTime 0
\* and restarts the clock, whatever wall time went by; after it the loop is
\* Running, the regeneration timer has its value from before the pause, and
\* gameTimer and the actor's position and heading have theirs unless that tick
\* respawned the actor (gameTimer is then 0) or a level regeneration completed
\* during the pause (it moves the actor).
C3_PauseResume ==
    [][ (IsUpdate /\ game.isUserPaused /\ inputState.pause) =>
            /\ ~game'.isUserPaused
            /\ log'.kind = "running"
            /\ log'.deltaTime = 0
            /\ clock'.running /\ clock'.sinceOld = 0
            /\ game'.timeSinceLastRegen = pauseSnap.timeSinceLastRegen
            /\ IF log'.respawns = <<>>
               THEN /\ state'.gameTimer = pauseSnap.gameTimer
                    /\ regenPending' = pauseSnap.regenPending =>
                          /\ PlayerAt(player', pauseSnap.player)
                          /\ player'.rot = pauseSnap.player.rot
               ELSE state'.gameTimer = 0 ]_vars

\* a resume two frames of wall time after the pause, the timer and the position
\* kept, the actor's velocity not
C3_Witness ==
    /\ pauseSnap # NoSnap
    /\ log.kind = "running" /\ log.toggled
    /\ log.wall = MaxWall
    /\ state.gameTimer = pauseSnap.gameTimer /\ state.gameTimer > 0
    /\ PlayerAt(player, pauseSnap.player)
    /\ player.vz # pauseSnap.player.vz

\* C3 as stated: after the resume gameTimer, the regeneration timer and the
\* actor state equal their values before the pause.
C3_Original ==
    [][ (IsUpdate /\ game.isUserPaused /\ inputState.pause) =>
            /\ ~game'.isUserPaused
            /\ state'.gameTimer = pauseSnap.gameTimer
            /\ game'.timeSinceLastRegen = pauseSnap.timeSinceLastRegen
            /\ player' = pauseSnap.player ]_vars

\* the part of Game.state the session counts in
Counters(st) == <<st.artifacts, st.memories, st.collectedMemories, st.gameTimer>>

\* C4 (as the code has it): an update() that returns at the user-pause gate (the
\* loop is UserPaused once the pause intent is processed) or at the dialogue
\* gate without a win leaves the actor, Game.state, the regeneration timer and
\* the collectible roster unchanged and schedules the next tick.  The tick that
\* finds the loop UserPaused and reads the pause intent is not among them: it
\* goes on through the whole pipeline with deltaTime 0.
C4_PausedTickFrame ==
    [][ (IsUpdate /\ game.isRunning
           /\ \/ ~game.isPaused /\ (game.isUserPaused # inputState.pause)
              \/ game.isPaused /\ game.interactingNPC # NoNPC
                   /\ log'.respawns = <<>>) =>
            /\ log'.kind \in {"userPaused", "dialoguePaused"}
            /\ player' = player
            /\ state' = state
            /\ collected' = collected
            /\ game'.timeSinceLastRegen = game.timeSinceLastRegen
            /\ regenPending' = regenPending
            /\ log'.scheduled = 1 ]_vars

\* a tick that ran while user-paused with the actor frozen in motion
C4_Witness ==
    /\ log.kind = "userPaused"
    /\ ~log.toggled
    /\ player.vz # 0
    /\ pauseSnap # NoSnap
    /\ player = pauseSnap.player

\* C4 as stated: every tick that runs while the loop is paused leaves the actor,
\* the session counters and the collectible roster unchanged.
C4_Original ==
    [][ (IsUpdate /\ (game.isUserPaused \/ game.isPaused)) =>
            /\ player' = player
            /\ Counters(state') = Counters(state)
            /\ collected' = collected ]_vars

\* C5: an update() that reads a set pause intent toggles the pause (Running to
\* UserPaused, UserPaused to Running) and clears the input state; an update()
\* that reads no pause intent does not toggle; and only a key event sets the
\* pause intent, so the tick after a toggle toggles again only after a new one.
C5_PauseToggle ==
    [][ /\ IsUpdate =>
              IF inputState.pause
              THEN /\ log'.toggled
                   /\ inputState' = clearInputState
                   /\ (~game.isUserPaused /\ ~game.isPaused) =>
                         (game'.isUserPaused /\ log'.kind = "userPaused")
                   /\ (game.isUserPaused /\ ~game.isPaused) =>
                         (~game'.isUserPaused /\ log'.kind = "running")
              ELSE /\ ~log'.toggled
                   /\ game'.isUserPaused = game.isUserPaused
        /\ (inputState'.pause /\ ~inputState.pause) => ~IsUpdate ]_vars

\* the loop is Running again after a pause and a resume, the intent consumed
C5_Witness ==
    /\ log.kind = "running" /\ log.toggled
    /\ pauseSnap # NoSnap
    /\ ~inputState.pause
    /\ ~game.isUserPaused

\* C6: a Running tick in which the actor starts an interaction with an NPC (the
\* interact intent is set and an NPC is in range, so Player.interact stores its
\* dialogue) leaves the loop DialoguePaused with that NPC as interacting NPC.
C6_DialogueEntered ==
    [][ (IsUpdate /\ log'.kind = "running" /\ log'.respawns = <<>>
           /\ inputState.interact /\ player'.currentDialogue # NoDialogue) =>
            /\ game'.isPaused
            /\ game'.interactingNPC = player'.currentDialogue ]_vars

\* the dialogue pause is never entered: nothing sets isPaused or interactingNPC
DialoguePauseUnreached == ~game.isPaused /\ game.interactingNPC = NoNPC

\* C8: after a Running tick whose terminal check saw health <= 0, that tick made
\* exactly one respawn, with reason 'health', and the actor's health is its
\* maximum.
C8_HealthRespawnOnce ==
    (log.kind = "running" /\ state.playerHealth.known /\ HealthSeen <= 0) =>
        /\ log.respawns = <<"health">>
        /\ player.currentHealth = player.maxHealth

\* a health respawn in a tick in which the win condition held as well
C8_Witness ==
    /\ ticks > 0
    /\ log.respawns = <<"health">>
    /\ HealthSeen <= 0
    /\ player.isGrounded /\ BelowWinThreshold

\* C9: in every reachable state the actor's health is in [0, maxHealth].
C9_HealthInRange ==
    /\ 0 <= player.currentHealth
    /\ player.currentHealth <= player.maxHealth

\* a life with damage taken and the health pickup used
C9_Witness ==
    /\ "h1" \in collected
    /\ player.currentHealth < player.maxHealth
    /\ player.currentHealth > 0
    /\ log.respawns = <<>>

\* the score of a win: the formula with the bonus on the saved time and
\* artifacts, for some number of memories
WinScores(save) ==
    { scoreFormula(save.time, save.artifacts, m, WinBonus) : m \in 0..Cardinality(Collectibles) }

\* C10: after a Running tick whose win check found the actor grounded below the
\* win threshold, the score was computed and saved with the win bonus, exactly
\* one respawn, with reason 'win', was made, isRunning is true and the next
\* tick is scheduled.
C10_WinRespawns ==
    (log.kind = "running" /\ HealthSeen > 0 /\ player.isGrounded /\ BelowWinThreshold
       /\ \A i \in 1..Len(log.respawns) : log.respawns[i] # "fall") =>
        /\ log.respawns = <<"win">>
        /\ state.gameWon
        /\ Len(log.saves) = 1
        /\ state.finalScore = log.saves[1].score
        /\ state.finalScore \in WinScores(log.saves[1])
        /\ game.isRunning
        /\ log.scheduled = 1
        /\ frames >= 1

\* a win with a positive play time and the artifact collected
C10_Witness ==
    /\ log.respawns = <<"win">>
    /\ state.gameWon
    /\ log.saves[1].time > 0 /\ log.saves[1].artifacts > 0
    /\ frames >= 1

\* the score the specification gives for a timer of t half-seconds
ExpectedScore(t, artifacts, memories, bonus) ==
    Max(0, BaseTimeScore - (PenaltyPerSecond * t) \div 2)
        + artifacts * PointsPerArtifact + memories * PointsPerMemory + bonus

\* C11: every respawn of a tick comes with exactly one save request, which
\* carries the timer and the artifact count the respawn found before resetting
\* them and the score of these values, without bonus for fall and health, with
\* the win bonus for win.
C11_SavePerRespawn ==
    /\ Len(log.saves) = Len(log.respawns)
    /\ Len(log.resets) = Len(log.respawns)
    /\ \A i \in 1..Len(log.respawns) :
         /\ log.saves[i].time = log.resets[i].timer
         /\ log.saves[i].artifacts = log.resets[i].artifacts
         /\ log.saves[i].score =
              ExpectedScore(log.resets[i].timer, log.resets[i].artifacts,
                            log.resets[i].memories,
                            IF log.respawns[i] = "win" THEN WinBonus ELSE 0)

\* a health respawn after some play with the artifact and the memory collected
C11_Witness ==
    /\ log.respawns = <<"health">>
    /\ log.resets[1].timer > 0
    /\ log.resets[1].artifacts > 0
    /\ log.resets[1].memories > 0
    /\ Len(log.saves) = 1

\* the latest score call was one of the three score computations
ScoreCalled == log.kind \in {"calculateScore", "respawnInline", "gameOverInline"}
SessionIs(t, a, m) == state.gameTimer = t /\ state.artifacts = a /\ state.memories = m

\* C12: calculateScore(isWin) returns max(0, 10000 - 10 * elapsed) + 1000 *
\* artifacts + 750 * memories, plus 1000 for a win, for every timer, artifact
\* count and memory count of the bounded ranges; for 100 s, 2 artifacts, 1
\* memory and no win that is 11750.
C12_CalculateScore ==
    log.kind = "calculateScore" =>
        /\ log.result = ExpectedScore(state.gameTimer, state.artifacts, state.memories,
                                      IF log.isWin THEN WinBonus ELSE 0)
        /\ (SessionIs(200, 2, 1) /\ ~log.isWin) => log.result = 11750

\* calculateScore(false) after 100 s with 2 artifacts and 1 memory
C12_Witness ==
    /\ log.kind = "calculateScore" /\ ~log.isWin
    /\ SessionIs(200, 2, 1)
    /\ log.result = 11750

\* C13 (as the code has it): calculateScore(true) after 50 s with 1 artifact
\* and 1 memory is (10000 - 500) + 1000 + 750 + 1000 = 12250.
C13_WinExample ==
    (log.kind = "calculateScore" /\ log.isWin /\ SessionIs(100, 1, 1)) =>
        log.result = 12250

\* calculateScore(true) after 50 s with 1 artifact and 1 memory
C13_Witness ==
    /\ log.kind = "calculateScore" /\ log.isWin
    /\ SessionIs(100, 1, 1)
    /\ log.result = 9500 + 1000 + 750 + 1000

\* C13 as stated: calculateScore(true) after 50 s with 1 artifact and 1 memory
\* is 11250.
C13_Original ==
    (log.kind = "calculateScore" /\ log.isWin /\ SessionIs(100, 1, 1)) =>
        log.result = 11250

\* C14: every score computed (by calculateScore and by the inline copies of
\* respawnPlayer and gameOver) is a natural number; after 2000 s without
\* collectibles and without a win it is 0.
C14_ScoreNonNegative ==
    ScoreCalled =>
        /\ log.result \in Nat
        /\ (SessionIs(4000, 0, 0) /\ ~log.isWin) => log.result = 0

\* a score of 0: the time score has reached its floor, nothing was collected
C14_Witness ==
    /\ ScoreCalled
    /\ state.gameTimer > 4000
    /\ SessionIs(state.gameTimer, 0, 0)
    /\ ~log.isWin
    /\ log.result = 0

\* C15: on every session record the inline score of respawnPlayer and the
\* inline score of gameOver equal calculateScore(false).
C15_InlineAgrees ==
    log.kind \in {"respawnInline", "gameOverInline"} =>
        log.result = calculateScore(state, FALSE)

\* the inline score of respawnPlayer on a record with collectibles, past the
\* point where the time score is 0
C15_Witness ==
    /\ log.kind = "respawnInline"
    /\ state.gameTimer > 4000 /\ state.artifacts = 1 /\ state.memories = 2
    /\ log.result = 2500

\* C17: a high-score save or fetch that fails, reported by its asynchronous
\* completion, changes nothing of the simulation: the actor, the session record,
\* the running and pause flags, the clock, the level and the scheduled update
\* callbacks are what they were before the failure was reported, and the report
\* is no tick.
C17_FailureChangesNothing ==
    [][ (supabase' # supabase /\ supabase'.failed # NoFailure)
          => UNCHANGED <<game, state, player, inputState, clock, collected, frames,
                         regenPending, log, ticks>> ]_vars

\* the save of a respawn has failed and the game is running with a tick scheduled
C17_Witness ==
    /\ supabase.failed = "save"
    /\ game.isRunning
    /\ frames > 0
    /\ ticks > 0

\* C18: a player update for an id that is not in the roster is ignored: the ids
\* of the roster and every stored mesh position, state and name are what they
\* were before the message.
C18_UnknownUpdateIgnored ==
    [][ \A playerId \in PlayerIds, st \in RemoteStates :
          (playerId \notin roster(net) /\ HandlePlayerUpdate(playerId, st))
            => net'.otherPlayers = net.otherPlayers ]_vars

\* an update for an unknown id has just been handled while another player is in
\* the roster
C18_Witness ==
    /\ net.warning = "unknownPlayer"
    /\ roster(net) # {}

\* what sendChatMessage is specified to reject
Rejected(message) ==
    message = NoMessage \/ Len(message) = 0 \/ Len(message) > maxChatLength

\* C19: a chat message that is missing, empty or longer than 100 characters is
\* rejected locally, and so is every message while no client id is known: nothing
\* is handed to the transport and nothing is displayed.
C19_RejectedLocally ==
    [][ \A message \in Messages :
          ((Rejected(message) \/ net.clientId = NoClient) /\ SendChatMessage(message))
            => net'.sent = net.sent /\ net'.shown = net.shown ]_vars

\* with the client id known, a message has just been rejected for its length
C19_Witness ==
    /\ net.warning = "emptyOrTooLong"
    /\ net.clientId # NoClient
    /\ net.sent = <<>>
    /\ net.shown = <<>>

\* the chatMessage payloads handed to the transport
ChatPayloads == {net.sent[i].payload : i \in {j \in DOMAIN net.sent : net.sent[j].type = "chatMessage"}}

NoMarkup(text) == \A i \in DOMAIN text : text[i] \notin {"<", ">"}

\* C20 as stated: every chatMessage payload handed to the transport has a text
\* of at most 100 characters without '<' and '>'.
C20_Original ==
    \A payload \in ChatPayloads :
        Len(payload.text) <= maxChatLength /\ NoMarkup(payload.text)

\* C20: every chatMessage payload handed to the transport has a text without
\* '<' and '>' that is the escaped form of a message of 1 to 100 characters; the
\* text itself may be up to 400 characters long.
C20_EscapedPayload ==
    \A payload \in ChatPayloads :
        /\ NoMarkup(payload.text)
        /\ Len(payload.text) <= 4 * maxChatLength
        /\ \E message \in Messages \ {NoMessage} :
              /\ Len(message) \in 1..maxChatLength
              /\ payload.text = sanitizedMessage(message)

\* a payload longer than 100 characters has been handed to the transport
C20_Witness ==
    \E payload \in ChatPayloads :
        Len(payload.text) > maxChatLength /\ NoMarkup(payload.text)

\* ---- Player.update on levels with ground objects and collision objects ----

\* Player.update calls followed from one construction of the actor
MaxSteps == 4

\* frame times of a step, in half seconds: a resumed frame (0) and a long frame
StepDts == {0, 1}

\* a platform with its top at height 0, as a ground object and as a collision body
stepGround == [zmin |-> -6, zmax |-> 6, top |-> 0, bottom |-> -2]
floorBody == [min |-> <<-10, -4, -10>>, max |-> <<10, 0, 10>>]
\* a slab two units above the platform, lower than the actor is tall
ceilingBody == [min |-> <<-10, 4, -10>>, max |-> <<10, 8, 10>>]
\* a wall across the forward direction
wallBody == [min |-> <<-10, 0, 11>>, max |-> <<10, 10, 15>>]
\* a post as wide as the actor, centred on the line the actor walks along
postBody == [min |-> <<-1, -10, 8>>, max |-> <<1, 10, 12>>]

\* levelManager.groundObjects and levelManager.collisionObjects of the levels stepped
StepGrounds == {<<>>, <<stepGround>>}
StepBodies ==
    {<<>>, <<floorBody>>, <<postBody>>, <<floorBody, wallBody>>, <<ceilingBody, floorBody>>}

\* heights the actor is constructed at, in half units above the platform top: at the
\* probe distance, just beyond it, and one, two and three frames of fall above the top
StartHeights == {4, 5, 15, 45, 90}

\* the intents a step is given
StepInputs == { [i \in Intents |-> i \in S] : S \in SUBSET {"forward", "backward", "jump"} }

\* two boxes share interior points: touching faces do not count
overlaps(a, b) == \A i \in 1..3 : a.min[i] < b.max[i] /\ a.max[i] > b.min[i]

\* new Player(scene, startPosition), with or without enableHighJump(), in a level
\* whose collision bodies leave the start position free
StepInit ==
    /\ \E ground \in StepGrounds, bodies \in StepBodies, h \in StartHeights, high \in BOOLEAN :
         /\ \A i \in 1..Len(bodies) : ~overlaps(hitbox(NewPlayer(Vec(0, h, 0))), bodies[i])
         /\ Install([FreshWorld EXCEPT
                    !.game.levelManager = [groundObjects |-> ground,
                                           collisionObjects |-> bodies],
                    !.game.initialPlayerPosition = Vec(0, h, 0),
                    !.player = IF high THEN enableHighJump(NewPlayer(Vec(0, h, 0)))
                               ELSE NewPlayer(Vec(0, h, 0))])
    /\ frames = 0
    /\ pauseSnap = NoSnap
    /\ ticks = 0
    /\ supabase = [NewSupabase EXCEPT !.fetches = 0]
    /\ net = NewNet

\* player.update(deltaTime, inputState, levelManager); the log keeps what the ground
\* probe found at the start of the step and the actor as updateLandMovement left it
PlayerUpdate(in, dt) ==
    /\ ticks < MaxSteps
    /\ ticks' = ticks + 1
    /\ player' = playerUpdateIn(player, dt, in, collected, game.levelManager).player
    /\ collected' = collected \cup
         { c.id : c \in playerUpdateIn(player, dt, in, collected, game.levelManager).items }
    /\ inputState' = in
    /\ log' = [ kind |-> "playerUpdate", deltaTime |-> dt,
                probe |-> checkGroundedIn(player, game.levelManager.groundObjects).isGrounded,
                moved |-> updateLandMovementIn(player, dt, in,
                                               game.levelManager.groundObjects) ]
    /\ UNCHANGED <<game, state, clock, frames, regenPending, pauseSnap, supabase, net>>

StepNext == \E in \in StepInputs, dt \in StepDts : PlayerUpdate(in, dt)

StepSpec == StepInit /\ [][StepNext]_vars

\* the playerStateUpdate messages handed to the transport
StateSends(n) == SelectSeq(n.sent, LAMBDA m : m.type = "playerStateUpdate")

\* C21: a tick hands at most one playerStateUpdate to the transport, and when it
\* sends one, more than networkUpdateInterval (100 ms) of wall-clock time has
\* passed since the previous one was sent, whatever the ticks in between did.
C21_SyncRateLimited ==
    [][ IsUpdate =>
          \/ StateSends(net') = StateSends(net)
          \/ /\ Len(StateSends(net')) = Len(StateSends(net)) + 1
             /\ net'.sent[Len(net'.sent)].at = net'.now
             /\ \/ StateSends(net) = <<>>
                \/ net'.now - StateSends(net)[Len(StateSends(net))].at > networkUpdateInterval
      ]_vars

\* three sends, with ticks in between that sent nothing
C21_Witness ==
    /\ Len(StateSends(net)) = 3
    /\ ticks > 5

\* a step in which the remote actor enters, leaves the roster
Enters(id) == id \notin roster(net) /\ id \in roster(net')
Leaves(id) == id \in roster(net) /\ id \notin roster(net')

\* a join notification for the id, a world-state listing
JoinedAs(id) == \E playerData \in PlayerDatas : playerData.id = id /\ HandlePlayerJoined(playerData)
Listing == \E playersData \in WorldStates : HandleWorldState(playersData)

\* C22 as stated: a remote actor enters the roster by a join notification or a
\* world-state listing and leaves it only by a leave notification for its id or
\* by a disconnect notification.
C22_Original ==
    [][ \A id \in PlayerIds :
          /\ Enters(id) => (JoinedAs(id) \/ Listing)
          /\ Leaves(id) => (HandlePlayerLeft(id) \/ HandleDisconnect) ]_vars

\* C22: a remote actor enters the roster by a join notification or a world-state
\* listing and leaves it only by a leave notification for its id, a disconnect
\* notification, a world-state listing (which replaces the roster) or a tick that
\* starts a level regeneration (which clears the roster).
C22_RosterLifecycle ==
    [][ \A id \in PlayerIds :
          /\ Enters(id) => (JoinedAs(id) \/ Listing)
          /\ Leaves(id) =>
                \/ HandlePlayerLeft(id)
                \/ HandleDisconnect
                \/ Listing
                \/ (IsUpdate /\ log'.regenStarted > 0) ]_vars

\* the tick that started the level regeneration has removed a remote actor
C22_Witness ==
    /\ log.regenStarted > 0
    /\ net.removed # {}
    /\ roster(net) = {}

\* the collectibles of a type among the given ids
OfType(ids, type) == {c \in Collectibles : c.id \in ids /\ c.type = type}

\* C28 as stated: in one life no collectible is counted twice, so the counters of
\* a life never exceed the number of collectibles of the level.
C28_Original ==
    /\ state.artifacts <= Cardinality(OfType({c.id : c \in Collectibles}, "artifact"))
    /\ state.memories <= Cardinality(OfType({c.id : c \in Collectibles}, "memory"))

\* C28: a collected collectible stays collected, and is counted no more, until a
\* respawn or a level regeneration resets the collectibles: a tick without
\* respawn raises the artifact and memory counters by the collectibles it newly
\* collected, and only a respawn or the reload of the level empties the
\* collected set.
C28_OncePerReset ==
    [][ /\ (IsUpdate /\ log'.respawns = <<>>) =>
              /\ collected \subseteq collected'
              /\ state'.artifacts - state.artifacts
                    = Cardinality(OfType(collected' \ collected, "artifact"))
              /\ state'.memories - state.memories
                    = Cardinality(OfType(collected' \ collected, "memory"))
        /\ ~(collected \subseteq collected') =>
              \/ IsUpdate /\ log'.respawns # <<>>
              \/ regenPending' = regenPending - 1 ]_vars

\* the artifact was collected a second time in one life, after a regeneration
C28_Witness ==
    state.artifacts = 2

\* C29: every update() of a running game requests exactly one next update(),
\* also when it returns at the user-pause gate or at the dialogue gate: the
\* callback that ran is replaced by one new callback, so a callback is always
\* scheduled while the game is paused.
C29_EveryTickSchedules ==
    [][ IsUpdate =>
          /\ log'.scheduled = 1
          /\ frames' >= 1
          /\ (game.isRunning => frames' = frames) ]_vars

\* a tick has returned at the user-pause gate of a game that was paused before
\* it, and one callback is scheduled
C29_Witness ==
    /\ log.kind = "userPaused"
    /\ ~log.toggled
    /\ game.isUserPaused
    /\ frames = 1

\* the jump force in effect: jumpForce, times highJumpForceMultiplier once unlocked
effectiveJumpForce(p) == IF p.hasHighJump THEN highJumpForce ELSE jumpForce

\* the step taken with the jump intent unset
WithoutJump ==
    playerUpdateIn(player, log'.deltaTime, [inputState' EXCEPT !.jump = FALSE],
                   collected, game.levelManager).player

\* C23 as stated: off the ground a jump intent leaves the vertical velocity of the
\* step what it is without the intent; on the ground the step leaves the vertical
\* velocity at the jump force and the actor not grounded
C23_Original ==
    [][IsUpdate =>
          /\ ~log'.probe => player'.vy = WithoutJump.vy
          /\ (log'.probe /\ inputState'.jump) =>
                /\ log'.moved.vy = effectiveJumpForce(player)
                /\ ~log'.moved.isGrounded]_vars

\* C23: off the ground a jump intent leaves the vertical velocity of the step what
\* it is without the intent; on the ground the jump sets the jump force and clears
\* the grounded flag, and the gravity of the same step is taken off it, so the
\* movement update leaves jumpForce (times 1.4 with high jump) less
\* gravity * deltaTime, and the step ends not grounded
C23_JumpNeedsGround ==
    [][IsUpdate =>
          /\ ~log'.probe => player'.vy = WithoutJump.vy
          /\ (log'.probe /\ inputState'.jump) =>
                /\ log'.moved.vy = effectiveJumpForce(player) - (gravity * log'.deltaTime) \div 2
                /\ log'.moved.isJumping
                /\ ~log'.moved.isGrounded
                /\ ~player'.isGrounded]_vars

\* a grounded jump over a long frame: gravity has already been taken off
C23_Witness ==
    /\ log.kind = "playerUpdate" /\ log.probe /\ inputState.jump
    /\ log.deltaTime = 1
    /\ log.moved.vy = effectiveJumpForce(player) - gravity \div 2
    /\ ~player.isGrounded

\* heights of the actor above the tops of the ground objects under it
groundDistances(p, ground) ==
    { p.y - ground[i].top : i \in
        { j \in 1..Len(ground) :
            ground[j].zmin <= p.z /\ p.z <= ground[j].zmax /\ p.y >= ground[j].top } }

\* C24: the ground probe is boundary-inclusive: the actor is found grounded exactly
\* when some ground object lies under it at a distance of at most the probe
\* distance 2, the distance 2 itself included
C24_ProbeInclusive ==
    [][IsUpdate =>
          log'.probe = (\E d \in groundDistances(player, game.levelManager.groundObjects) :
                           d <= HU(groundProbe))]_vars

\* the first step of an actor constructed exactly the probe distance above the ground
C24_Witness ==
    /\ log.kind = "playerUpdate" /\ ticks = 1
    /\ game.levelManager.groundObjects = <<stepGround>>
    /\ game.initialPlayerPosition.y - stepGround.top = HU(groundProbe)
    /\ log.probe

\* C25 as stated: with an empty ground set the grounded flag is false after every step
C25_Original ==
    game.levelManager.groundObjects = <<>> => ~player.isGrounded

\* C25: with an empty ground set the ground probe never finds the actor grounded,
\* whatever the collision bodies, and the movement update leaves it not grounded;
\* the flag is true after a step only in a level with collision bodies, whose
\* resolution grounds an actor that is not jumping
C25_EmptyGroundNeverProbed ==
    [][(IsUpdate /\ game.levelManager.groundObjects = <<>>) =>
          /\ ~log'.probe
          /\ ~log'.moved.isGrounded
          /\ player'.isGrounded =>
                /\ game.levelManager.collisionObjects # <<>>
                /\ ~player'.isJumping]_vars

\* a level without ground objects in which the actor has come to rest on a collision
\* body: the probe found nothing, the push grounded it
C25_Witness ==
    /\ log.kind = "playerUpdate"
    /\ game.levelManager.groundObjects = <<>>
    /\ game.levelManager.collisionObjects # <<>>
    /\ ~log.probe
    /\ player.isGrounded

\* C26 as stated: after the collision resolution of a step the actor's bounding box
\* overlaps no collision body
C26_NoOverlapAfterResolution ==
    log.kind = "playerUpdate" =>
        \A i \in 1..Len(game.levelManager.collisionObjects) :
            ~overlaps(hitbox(player), game.levelManager.collisionObjects[i])

\* C27: at the end of every step a grounded actor is not falling
C27_GroundedNotFalling ==
    player.isGrounded => ~player.isFalling

\* a fall ended by a collision body: the movement update of the step still had the
\* actor falling, the push out of the body grounded it
C27_Witness ==
    /\ log.kind = "playerUpdate"
    /\ log.moved.isFalling /\ ~log.moved.isGrounded
    /\ player.isGrounded /\ ~player.isFalling

\* the horizontal velocity C30 states, along the forward axis: moveSpeed for
\* forward, 0.7 * moveSpeed the other way for backward, their sum for both
statedVelocity(in) ==
    (IF in.forward THEN moveSpeed ELSE 0) - (IF in.backward THEN (moveSpeed * 7) \div 10 ELSE 0)

\* C30 as stated: the horizontal velocity the movement update of a step leaves is
\* the stated function of that step's intents and the orientation, whatever the
\* velocity was before
C30_VelocityFromIntents ==
    [][IsUpdate =>
          /\ log'.moved.vx = 0
          /\ log'.moved.vz = statedVelocity(inputState') * ForwardZ(player.rot)]_vars

\* the actor of a step as the integration leaves it, before collision resolution
Integrated == integrate(log'.moved, log'.deltaTime)

\* the displacement and the velocity change of the collision resolution of a step
displacement == <<player'.x - Integrated.x, player'.y - Integrated.y, player'.z - Integrated.z>>
velocityOf(p) == <<p.vx, p.vy, p.vz>>

\* the first of x, y, z among the axes of least overlap
minAxis(a, b) ==
    CHOOSE i \in 1..3 :
        /\ \A j \in 1..3 : overlap2(a, b, i) <= overlap2(a, b, j)
        /\ \A j \in 1..(i - 1) : overlap2(a, b, j) > overlap2(a, b, i)

\* the push C31 states for body b along axis i: nothing on the other axes, 1.01
\* times the overlap on axis i, away from the centre of b; the velocity component on
\* axis i is zero if it pointed against the push, everything else is kept
statedPush(a, b, i) ==
    /\ \A j \in 1..3 : j # i => displacement[j] = 0
    /\ Abs(displacement[i]) = pushAmount(overlap2(a, b, i))
    /\ (a.min[i] + a.max[i]) > (b.min[i] + b.max[i]) => displacement[i] > 0
    /\ (a.min[i] + a.max[i]) < (b.min[i] + b.max[i]) => displacement[i] < 0
    /\ \A j \in 1..3 : j # i => velocityOf(player')[j] = velocityOf(Integrated)[j]
    /\ velocityOf(player')[i] =
          IF velocityOf(Integrated)[i] * displacement[i] < 0 THEN 0
          ELSE velocityOf(Integrated)[i]

\* C31 as stated, for the levels with one collision body: a body with positive
\* overlap on all three axes pushes the actor along the axis of minimum overlap
\* (ties to the first of x, y, z), only along that axis, away from the body's
\* centre, by 1.01 times the overlap, and the velocity component along that axis
\* is zeroed iff it pointed into the body; any other body displaces nothing
C31_PushOut ==
    [][(IsUpdate /\ Len(game.levelManager.collisionObjects) = 1) =>
          IF \A i \in 1..3 :
                overlap2(hitbox(Integrated), game.levelManager.collisionObjects[1], i) > 0
          THEN statedPush(hitbox(Integrated), game.levelManager.collisionObjects[1],
                          minAxis(hitbox(Integrated), game.levelManager.collisionObjects[1]))
          ELSE displacement = <<0, 0, 0>>]_vars

\* the same with the case of C26 set apart: a body whose centre is the actor's on
\* the axis of minimum overlap displaces nothing and changes no velocity
C31_PushOutOffCentre ==
    [][(IsUpdate /\ Len(game.levelManager.collisionObjects) = 1) =>
          IF \A i \in 1..3 :
                overlap2(hitbox(Integrated), game.levelManager.collisionObjects[1], i) > 0
          THEN IF centreSign(hitbox(Integrated), game.levelManager.collisionObjects[1],
                             minAxis(hitbox(Integrated),
                                     game.levelManager.collisionObjects[1])) = 0
               THEN /\ displacement = <<0, 0, 0>>
                    /\ velocityOf(player') = velocityOf(Integrated)
               ELSE statedPush(hitbox(Integrated), game.levelManager.collisionObjects[1],
                               minAxis(hitbox(Integrated),
                                       game.levelManager.collisionObjects[1]))
          ELSE displacement = <<0, 0, 0>>]_vars

\* C32 as stated: when a fall ends in a step, by the ground probe or by the push out
\* of a collision body, maxFallDistanceThisSession is afterwards at least the
\* distance accumulated during that fall
C32_LandingRecordsFall ==
    [][IsUpdate =>
          /\ (player.isFalling /\ log'.moved.isGrounded) =>
                player'.maxFallDistanceThisSession >= player.currentFallDistance
          /\ (log'.moved.isFalling /\ player'.isGrounded) =>
                player'.maxFallDistanceThisSession >= log'.moved.currentFallDistance]_vars

\* the landings by the ground probe alone (the movement update of the step leaves
\* the actor grounded): the fall is recorded
C32_ProbeLandingRecordsFall ==
    [][(IsUpdate /\ player.isFalling /\ log'.moved.isGrounded) =>
          /\ player'.maxFallDistanceThisSession >= player.currentFallDistance
          /\ ~player'.isFalling]_vars

\* C33: the level-regeneration timer grows only in Running ticks; the tick in which
\* it reaches the interval starts the regeneration exactly once and resets the
\* timer to zero, and no other tick starts one; while the reload is pending the loop
\* is not cancelled: isRunning stays true and a next tick stays scheduled
C33_RegenerationKeepsLoop ==
    [][/\ game'.timeSinceLastRegen > game.timeSinceLastRegen =>
             (IsUpdate /\ log'.kind = "running" /\ ~game'.isUserPaused /\ ~game'.isPaused)
       /\ IsUpdate =>
             /\ log'.regenStarted =
                   IF /\ log'.kind = "running"
                      /\ game.timeSinceLastRegen + log'.deltaTime * 500 >= mapRegenInterval
                   THEN 1 ELSE 0
             /\ log'.regenStarted = 1 =>
                   (game'.timeSinceLastRegen = 0 /\ regenPending' = regenPending + 1)
       /\ (regenPending > 0 /\ game.isRunning) => (game'.isRunning /\ frames' >= 1)]_vars

\* a Running tick made while a reload is pending: the timer has started again from
\* zero and the next tick is scheduled
C33_Witness ==
    /\ regenPending > 0
    /\ log.kind = "running" /\ log.regenStarted = 0
    /\ game.isRunning /\ frames = 1
    /\ game.timeSinceLastRegen > 0 /\ game.timeSinceLastRegen < mapRegenInterval

\* C34 as stated: while the loop is UserPaused the actor's position, velocity and
\* falling flag are what they were when the pause began, also when the reload of
\* a level regeneration completes during the pause
C34_PausedActorUnmoved ==
    (game.isUserPaused /\ pauseSnap # NoSnap) =>
        /\ PlayerAt(player, pauseSnap.player)
        /\ velocityOf(player) = velocityOf(pauseSnap.player)
        /\ player.isFalling = pauseSnap.player.isFalling

\* the same for every step of a user pause but the completion of a reload
C34_PausedActorUnmovedByTicks ==
    [][(game.isUserPaused /\ game'.isUserPaused /\ regenPending' = regenPending) =>
          player' = player]_vars

\* ---- the game loop on a level with a floor under the fall threshold ----

\* a collision body that catches the falling actor 22 units below the origin, under
\* the fall threshold of -20
catchFloor == [min |-> <<-10, -48, -10>>, max |-> <<10, -44, 10>>]

\* start positions the level provider gives: one under the win threshold of 5, one
\* above it; from both the actor comes down on the catch floor
SpawnPositions == {Vec(0, 0, 0), Vec(0, 45, 0)}

\* the game after init() with such a level and start position
RespawnInit ==
    /\ \E spawn \in SpawnPositions :
         Install([FreshWorld EXCEPT
                    !.game.levelManager = [groundObjects |-> <<>>,
                                           collisionObjects |-> <<catchFloor>>],
                    !.game.initialPlayerPosition = spawn,
                    !.player = NewPlayer(spawn)])
    /\ frames = 0
    /\ pauseSnap = NoSnap
    /\ ticks = 0
    /\ supabase = NewSupabase
    /\ net = NewNet

RespawnNext ==
    \/ StartGameLoop
    \/ Tick
    \/ \E key \in Keys : handleKeyDown(key)
    \/ \E key \in Keys : handleKeyUp(key)
    \/ SaveSettled
    \/ FetchSettled

RespawnSpec == RespawnInit /\ [][RespawnNext]_vars

\* C35 as stated: the latest tick has made at most one respawn and at most one save
\* request, for every recorded initial spawn position
C35_OneRespawnPerTick ==
    Len(log.respawns) <= 1 /\ Len(log.saves) <= 1

\* the ticks that respawn twice are the ones of C35's case: a fall respawn followed
\* by the win sequence, with the start position under the win threshold
C35_DoubleOnlyFallThenWin ==
    Len(log.respawns) > 1 =>
        /\ log.respawns = <<"fall", "win">>
        /\ game.initialPlayerPosition.y < HU(winThreshold)

\* ---- the game loop with gameOver and restart called from outside ----

\* Player.resetSessionStats
resetSessionStats(p) ==
    [p EXCEPT !.currentFallDistance = 0, !.maxFallDistanceThisSession = 0]

\* Game.restart with the reload resolved before any other callback runs: the session
\* record is replaced, the fall statistics are reset; after loadLevel the actor is
\* put at the entry position, the flags are set, the clock is started and update()
\* is called
restart(w, damage) ==
    update([w EXCEPT !.state = NewState,
                     !.player = setPosition(resetSessionStats(@), EntryStart),
                     !.collected = {},
                     !.game.isRunning = TRUE,
                     !.game.isPaused = FALSE,
                     !.game.isUserPaused = FALSE,
                     !.game.interactingNPC = NoNPC,
                     !.clock = clockStart(@)],
           damage)

\* restart() called by the interface
Restart ==
    /\ ticks < MaxTicks
    /\ ticks' = ticks + 1
    /\ \E damage \in Damages :
         /\ Apply(restart(World, damage))
         /\ frames' = frames + restart(World, damage).log.scheduled
         /\ supabase' = [supabase EXCEPT
                            !.saves = Min(MaxSaves, @ + Len(restart(World, damage).log.saves)),
                            !.failed = NoFailure]
    /\ pauseSnap' = NoSnap
    /\ UNCHANGED net

\* gameOver() called while the loop runs
GameOver ==
    /\ game.isRunning
    /\ Apply(gameOver([World EXCEPT !.log = [NewLog EXCEPT !.kind = "gameOver"]],
                      "unknown"))
    /\ supabase' = [supabase EXCEPT !.saves = Min(MaxSaves, @ + 1)]
    /\ UNCHANGED <<frames, pauseSnap, ticks, net>>

RestartInit ==
    /\ Install(FreshWorld)
    /\ frames = 0
    /\ pauseSnap = NoSnap
    /\ ticks = 0
    /\ supabase = [NewSupabase EXCEPT !.fetches = 0]
    /\ net = NewNet

RestartNext ==
    \/ StartGameLoop
    \/ Tick
    \/ Restart
    \/ GameOver
    \/ \E key \in {"w", "p"} : handleKeyDown(key)
    \/ \E key \in {"w", "p"} : handleKeyUp(key)

RestartSpec == RestartInit /\ [][RestartNext]_vars

\* C36 as stated: at most one update callback is scheduled, after any interleaving
\* of startGameLoop, gameOver, restart and ticks
C36_OneTickPending ==
    frames <= 1

\* a second callback is only ever scheduled by restart or startGameLoop finding one
\* still scheduled: the ticks themselves keep at most one
C36_SecondTickOnlyByRestartOrStart ==
    [][(frames <= 1 /\ frames' > 1) => (frames = 1 /\ (Restart \/ StartGameLoop))]_vars

\* C37 as stated: the roster never holds the id of the local client, in whatever
\* order the id assignment, the world-state, join and update messages arrive
C37_RosterWithoutSelf ==
    net.clientId \notin roster(net)

\* once the id is assigned, no message puts it into the roster: the own id gets
\* there only by a listing or a join handled before, or under another, assignment
C37_SelfNotAddedAfterAssignment ==
    [][(net.clientId # NoClient /\ net'.clientId = net.clientId /\ net.clientId \notin roster(net))
          => net.clientId \notin roster(net')]_vars

----------------------------------------------------------------------------
(* The keyboard: key-down and key-up events and the keys held              *)

\* the keys of keyMappings and one key that is not mapped
AllKeys == {"w", "ArrowUp", "s", "ArrowDown", "a", "ArrowLeft", "d", "ArrowRight",
            " ", "z", "e", "f", "p", "q"}

\* InputManager.handleKeyDown on the intents: `if (this.keyMappings[key] !== undefined)
\* this.inputState[this.keyMappings[key]] = true`
keyDown(in, key) ==
    IF keyMappings(key) # "undefined" THEN [in EXCEPT ![keyMappings(key)] = TRUE] ELSE in

\* InputManager.handleKeyUp on the intents
keyUp(in, key) ==
    IF keyMappings(key) # "undefined" THEN [in EXCEPT ![keyMappings(key)] = FALSE] ELSE in

\* the keyboard reports a key going down (again and again while it is held)
KeyDown(key) ==
    /\ inputState' = keyDown(inputState, key)
    /\ log' = [log EXCEPT !.held = @ \cup {key}]
    /\ UNCHANGED <<game, state, player, clock, collected, frames, regenPending, pauseSnap, ticks, supabase, net>>

\* the keyboard reports a held key going up
KeyUp(key) ==
    /\ key \in log.held
    /\ inputState' = keyUp(inputState, key)
    /\ log' = [log EXCEPT !.held = @ \ {key}]
    /\ UNCHANGED <<game, state, player, clock, collected, frames, regenPending, pauseSnap, ticks, supabase, net>>

\* no key held, no intent set
KeyInit ==
    /\ Install([FreshWorld EXCEPT !.log = [kind |-> "keys", held |-> {}]])
    /\ frames = 0
    /\ pauseSnap = NoSnap
    /\ ticks = 0
    /\ supabase = [NewSupabase EXCEPT !.fetches = 0]
    /\ net = NewNet

KeyNext ==
    \/ \E key \in AllKeys : KeyDown(key)
    \/ \E key \in AllKeys : KeyUp(key)

KeySpec == KeyInit /\ [][KeyNext]_vars

\* the keys held that are mapped to the intent
heldFor(intent) == {key \in log.held : keyMappings(key) = intent}

\* C38 as stated: after any sequence of key-down and key-up events each intent is
\* true exactly when at least one of the keys mapped to it is held
C38_IntentIffKeyHeld ==
    \A intent \in Intents : inputState[intent] <=> heldFor(intent) # {}

\* an intent is true only while a key mapped to it is held, and an intent with a
\* single key is true exactly while that key is held
C38_IntentOnlyWhileKeyHeld ==
    \A intent \in Intents :
        /\ inputState[intent] => heldFor(intent) # {}
        /\ Cardinality({key \in AllKeys : keyMappings(key) = intent}) = 1
              => (inputState[intent] <=> heldFor(intent) # {})

\* C39 as stated: while the game runs, the simulation clock is stopped and the
\* pause screen is shown exactly when isUserPaused is set
C39_PauseConsistent ==
    game.isRunning =>
        /\ ~clock.running <=> game.isUserPaused
        /\ game.pauseScreen <=> game.isUserPaused

\* the ticks and the pause toggles they make keep the clock and the pause screen in
\* step with isUserPaused
C39_TicksKeepPauseConsistent ==
    [][(Tick /\ C39_PauseConsistent) => C39_PauseConsistent']_vars

----------------------------------------------------------------------------
(* The game loop with level regenerations and restarts: the memories of a  *)
(* life                                                                    *)

MemoryNext ==
    \/ StartGameLoop
    \/ Tick
    \/ RegenComplete
    \/ Restart
    \/ handleKeyDown("w")
    \/ handleKeyUp("w")

MemorySpec == Init /\ [][MemoryNext]_vars

\* memories is 0 and collectedMemories is empty
NoMemories(st) == st.memories = 0 /\ st.collectedMemories = <<>>

\* C40: collectedMemories never holds an id twice and is never longer than the
\* memories counter; after a tick that respawned and after a restart the counter is
\* 0 and the list is empty
C40_CollectedMemories ==
    /\ [](/\ \A i, j \in 1..Len(state.collectedMemories) :
                 state.collectedMemories[i] = state.collectedMemories[j] => i = j
          /\ Len(state.collectedMemories) <= state.memories
          /\ log.respawns # <<>> => NoMemories(state))
    /\ [][Restart => NoMemories(state')]_vars

\* a memory picked up a second time in one life, after a level regeneration: it is
\* counted again and listed once
C40_Witness ==
    /\ state.memories = 2
    /\ state.collectedMemories = <<"m1">>

\* a respawn has just reset the memories of a life in which one was collected
C40_RespawnWitness ==
    /\ log.respawns # <<>>
    /\ log.resets[1].memories > 0
    /\ NoMemories(state)

====
